---- MODULE Spec2Model ----
(***************************************************************************)
(* The voice-alert system's command-matching and dispatch engine           *)
(* (src/command_engine.py, class CommandEngine): the action registry, the  *)
(* intent matcher, the action executor and the audit log; around it the    *)
(* conversations of the voice interfaces (src/voice_interface.py,          *)
(* src/simple_voice_interface.py, src/speech_recognition_helper.py), the   *)
(* callers (src/voice_caller.py), the orchestrator VoiceAlertSystem        *)
(* (src/voicealert_system.py) with its signal handler, and the             *)
(* configuration VoiceAlertConfig (src/config.py).                         *)
(*                                                                         *)
(* A Python str is modelled as a sequence of one-character strings, so     *)
(* that `in`, lower(), strip(), join() and f-string concatenation are      *)
(* computed character by character.  None is modelled by the optional      *)
(* value None below, distinct from the empty string.                       *)
(***************************************************************************)
EXTENDS Integers, Sequences, FiniteSets, TLC

\* ------------------------------------------------------------------ bounds
\* process_voice_command calls in one behaviour
MaxCalls == 2
\* start_conversation frames on the stack at once
MaxDepth == 3
\* pieces concatenated into one input of the matcher
MaxPieces == 2

\* ----------------------------------------------------------------- strings
s_empty == <<>>
\* the default triggers, scripts and descriptions (command_engine.py 18-44)
s_start_patching == <<"s","t","a","r","t"," ","p","a","t","c","h","i","n","g">>
s_quarantine_servers == <<"q","u","a","r","a","n","t","i","n","e"," ","s","e","r","v","e","r","s">>
s_acknowledge_incident == <<"a","c","k","n","o","w","l","e","d","g","e"," ","i","n","c","i","d","e","n","t">>
s_emergency_shutdown == <<"e","m","e","r","g","e","n","c","y"," ","s","h","u","t","d","o","w","n">>
s_status_report == <<"s","t","a","t","u","s"," ","r","e","p","o","r","t">>
s_scripts_patch_r2s == <<"s","c","r","i","p","t","s","/","p","a","t","c","h","_","r","2","s",".","s","h">>
s_scripts_isolate == <<"s","c","r","i","p","t","s","/","i","s","o","l","a","t","e",".","s","h">>
s_scripts_emergency_shutdown == <<"s","c","r","i","p","t","s","/","e","m","e","r","g","e","n","c","y","_","s","h","u","t","d","o","w","n",".","s","h">>
s_scripts_status_check == <<"s","c","r","i","p","t","s","/","s","t","a","t","u","s","_","c","h","e","c","k",".","s","h">>
s_desc_patching == <<"I","n","i","t","i","a","t","e"," ","a","u","t","o","m","a","t","e","d"," ","p","a","t","c","h","i","n","g"," ","p","r","o","c","e","s","s">>
s_desc_quarantine == <<"I","s","o","l","a","t","e"," ","a","f","f","e","c","t","e","d"," ","s","y","s","t","e","m","s">>
s_desc_acknowledge == <<"L","o","g"," ","i","n","c","i","d","e","n","t"," ","a","c","k","n","o","w","l","e","d","g","m","e","n","t">>
s_desc_shutdown == <<"E","m","e","r","g","e","n","c","y"," ","s","y","s","t","e","m"," ","s","h","u","t","d","o","w","n">>
s_desc_status == <<"G","e","n","e","r","a","t","e"," ","s","y","s","t","e","m"," ","s","t","a","t","u","s"," ","r","e","p","o","r","t">>
\* the fuzzy keywords (command_engine.py 92-101)
s_patch == <<"p","a","t","c","h">>
s_quarantine == <<"q","u","a","r","a","n","t","i","n","e">>
s_isolate == <<"i","s","o","l","a","t","e">>
s_acknowledge == <<"a","c","k","n","o","w","l","e","d","g","e">>
s_ack == <<"a","c","k">>
s_shutdown == <<"s","h","u","t","d","o","w","n">>
s_status == <<"s","t","a","t","u","s">>
s_report == <<"r","e","p","o","r","t">>
\* the fixed parts of the returned messages
s_completed_successfully == <<" ","c","o","m","p","l","e","t","e","d"," ","s","u","c","c","e","s","s","f","u","l","l","y",".">>
s_failed_check_logs == <<" ","f","a","i","l","e","d","."," ","C","h","e","c","k"," ","l","o","g","s"," ","f","o","r"," ","d","e","t","a","i","l","s",".">>
s_timed_out == <<" ","t","i","m","e","d"," ","o","u","t"," ","a","f","t","e","r"," ","5"," ","m","i","n","u","t","e","s",".">>
s_error_executing == <<"E","r","r","o","r"," ","e","x","e","c","u","t","i","n","g"," ">>
s_colon_space == <<":"," ">>
s_script_ == <<"S","c","r","i","p","t"," ">>
s_not_found == <<" ","n","o","t"," ","f","o","u","n","d","."," ","P","l","e","a","s","e"," ","c","h","e","c","k"," ","c","o","n","f","i","g","u","r","a","t","i","o","n",".">>
s_is_not_executable == <<" ","i","s"," ","n","o","t"," ","e","x","e","c","u","t","a","b","l","e",".">>
s_acknowledged_and_logged == <<"I","n","c","i","d","e","n","t"," ","a","c","k","n","o","w","l","e","d","g","e","d"," ","a","n","d"," ","l","o","g","g","e","d",".">>
s_command_quote == <<"C","o","m","m","a","n","d"," ","'">>
s_no_action_configured == <<"'"," ","r","e","c","o","g","n","i","z","e","d"," ","b","u","t"," ","n","o"," ","a","c","t","i","o","n"," ","c","o","n","f","i","g","u","r","e","d",".">>
s_failed_to_execute == <<"F","a","i","l","e","d"," ","t","o"," ","e","x","e","c","u","t","e"," ">>
s_dot_error == <<"."," ","E","r","r","o","r",":"," ">>
s_unknown_command == <<"U","n","k","n","o","w","n"," ","c","o","m","m","a","n","d","."," ","A","v","a","i","l","a","b","l","e"," ","c","o","m","m","a","n","d","s",":"," ","'">>
s_quote_comma_quote == <<"'",","," ","'">>
s_please_try_again == <<"'","."," ","P","l","e","a","s","e"," ","t","r","y"," ","a","g","a","i","n",".">>
s_incident_acknowledged_at == <<"I","n","c","i","d","e","n","t"," ","a","c","k","n","o","w","l","e","d","g","e","d"," ","a","t"," ">>
s_for == <<" ","f","o","r"," ">>
s_newline == <<"\n">>
s_custom_command_desc == <<"C","u","s","t","o","m"," ","c","o","m","m","a","n","d">>
\* values of the environment: exception texts, script output, correlation ids
s_exec_format_error == <<"[","E","r","r","n","o"," ","8","]"," ","E","x","e","c"," ","f","o","r","m","a","t"," ","e","r","r","o","r">>
s_cannot_decode == <<"'","u","t","f","-","8","'"," ","c","o","d","e","c"," ","c","a","n","'","t"," ","d","e","c","o","d","e"," ","b","y","t","e"," ","0","x","f","f">>
s_no_such_file == <<"[","E","r","r","n","o"," ","2","]"," ","N","o"," ","s","u","c","h"," ","f","i","l","e"," ","o","r"," ","d","i","r","e","c","t","o","r","y">>
s_permission_denied_script == <<"[","E","r","r","n","o"," ","1","3","]"," ","P","e","r","m","i","s","s","i","o","n"," ","d","e","n","i","e","d">>
s_permission_denied_logs == <<"[","E","r","r","n","o"," ","1","3","]"," ","P","e","r","m","i","s","s","i","o","n"," ","d","e","n","i","e","d",":"," ","'","l","o","g","s","'">>
s_stderr == <<"r","m",":"," ","c","a","n","n","o","t"," ","r","e","m","o","v","e"," ","'","/","s","r","v","'">>
s_stdout == <<"p","a","t","c","h","i","n","g"," ","3"," ","h","o","s","t","s">>
s_cve_55182 == <<"C","V","E","-","2","0","2","5","-","5","5","1","8","2">>
s_cve_stale == <<"C","V","E","-","2","0","2","4","-","0","0","0","1">>
s_usr_bin == <<"/","u","s","r","/","b","i","n">>
s_tampered == <<"t","a","m","p","e","r","e","d">>
\* custom commands a caller registers
s_Deploy_Fix == <<"D","e","p","l","o","y"," ","F","i","x">>
s_scripts_ack == <<"s","c","r","i","p","t","s","/","a","c","k",".","s","h">>
s_desc_custom_ack == <<"P","a","g","e"," ","t","h","e"," ","i","n","c","i","d","e","n","t"," ","c","h","a","n","n","e","l">>
s_start_patching_database == <<"s","t","a","r","t"," ","p","a","t","c","h","i","n","g"," ","d","a","t","a","b","a","s","e">>
s_scripts_db == <<"s","c","r","i","p","t","s","/","p","a","t","c","h","_","d","b",".","s","h">>
s_desc_db == <<"P","a","t","c","h"," ","t","h","e"," ","d","a","t","a","b","a","s","e"," ","t","i","e","r">>
s_scripts_deploy == <<"s","c","r","i","p","t","s","/","d","e","p","l","o","y",".","s","h">>
s_desc_deploy == <<"D","e","p","l","o","y"," ","t","h","e"," ","h","o","t","f","i","x">>
s_deploy_fix == <<"d","e","p","l","o","y"," ","f","i","x">>
\* utterances
s_please_start_patching_now == <<"p","l","e","a","s","e"," ","s","t","a","r","t"," ","p","a","t","c","h","i","n","g"," ","n","o","w">>
s_ACK_ws == <<"\t","A","C","K"," ">>
s_Status_ACK_ws == <<"S","t","a","t","u","s","?"," ","A","C","K","\n">>
s_xyzzy == <<"x","y","z","z","y">>
s_deploy_fix_now == <<"d","e","p","l","o","y"," ","f","i","x"," ","n","o","w">>
s_quarantine_all_servers == <<"q","u","a","r","a","n","t","i","n","e"," ","a","l","l"," ","s","e","r","v","e","r","s">>
s_Now_ws == <<" ","N","o","w","\t">>
s_Shutdown_everything == <<"S","h","u","t","d","o","w","n"," ","e","v","e","r","y","t","h","i","n","g">>
\* the texts handle_voice_response answers with (voice_caller.py 80, 94, 96)
s_sorry_unknown_call == <<"S","o","r","r","y",","," ","I"," ","d","o","n","'","t"," ","r","e","c","o","g","n","i","z","e"," ","t","h","i","s"," ","c","a","l","l"," ","s","e","s","s","i","o","n",".">>
s_sorry_error == <<"S","o","r","r","y",","," ","t","h","e","r","e"," ","w","a","s"," ","a","n"," ","e","r","r","o","r"," ","p","r","o","c","e","s","s","i","n","g"," ","y","o","u","r"," ","c","o","m","m","a","n","d",".">>
\* return values of place_call and end_call, as texts
s_True == <<"T","r","u","e">>
s_False == <<"F","a","l","s","e">>
s_None == <<"N","o","n","e">>
s_call_id == <<"c","a","l","l","_","i","d">>
\* config.py line 80, and values of the API keys and the phone number
s_masked == <<"*","*","*","M","A","S","K","E","D","*","*","*">>
s_key_a == <<"s","k","-","a">>
s_key_b == <<"s","k","-","b">>
s_phone == <<"+","1","5","5","5","0","1","0","0">>
s_INFO == <<"I","N","F","O">>
s_no_handler == <<"C","o","m","m","a","n","d"," ","r","e","c","e","i","v","e","d"," ","b","u","t"," ","n","o"," ","h","a","n","d","l","e","r"," ","c","o","n","f","i","g","u","r","e","d",".">>
\* values of ENABLE_EMERGENCY_SHUTDOWN, and the default of config.py line 45
s_true == <<"t","r","u","e">>
s_TRUE == <<"T","R","U","E">>
s_false == <<"f","a","l","s","e">>
s_one == <<"1">>
\* the words a voice interface looks for in a result, and in a reply
s_completed == <<"c","o","m","p","l","e","t","e","d">>
s_acknowledged == <<"a","c","k","n","o","w","l","e","d","g","e","d">>
s_successful == <<"s","u","c","c","e","s","s","f","u","l">>
s_quit == <<"q","u","i","t">>
s_exit == <<"e","x","i","t">>
s_end == <<"e","n","d">>
\* the command the mock caller simulates
s_mock_start_patching == <<"s","t","a","r","t"," ","p","a","t","c","h","i","n","g">>
\* correlation ids of scanned vulnerabilities
s_cve_0002 == <<"C","V","E","-","2","0","2","5","-","0","0","0","2">>

\* ---------------------------------------------------------------- str ops
UpperChars == <<"A","B","C","D","E","F","G","H","I","J","K","L","M","N","O","P","Q","R","S","T","U","V","W","X","Y","Z">>
LowerChars == <<"a","b","c","d","e","f","g","h","i","j","k","l","m","n","o","p","q","r","s","t","u","v","w","x","y","z">>
Whitespace == {" ", "\t", "\n", "\r", "\f"}

LowerChar(c) ==
    IF \E i \in 1..Len(UpperChars) : UpperChars[i] = c
    THEN LowerChars[CHOOSE i \in 1..Len(UpperChars) : UpperChars[i] = c]
    ELSE c

\* str.lower()
Lower(s) == [i \in 1..Len(s) |-> LowerChar(s[i])]

\* str.strip(): drops the leading and the trailing whitespace
Strip(s) ==
    LET keep == {i \in 1..Len(s) : s[i] \notin Whitespace}
    IN  IF keep = {} THEN <<>>
        ELSE LET lo == CHOOSE i \in keep : \A j \in keep : i <= j
                 hi == CHOOSE i \in keep : \A j \in keep : j <= i
             IN  SubSeq(s, lo, hi)

\* `sub in s`
Contains(sub, s) ==
    \E i \in 0..(Len(s) - Len(sub)) : SubSeq(s, i + 1, i + Len(sub)) = sub

\* sep.join(items)
RECURSIVE Join(_, _)
Join(sep, items) ==
    IF items = <<>> THEN <<>>
    ELSE IF Len(items) = 1 THEN items[1]
    ELSE items[1] \o sep \o Join(sep, Tail(items))

\* Optional[str]: None and str values; bool(x) is False for None and for ""
None == [isNone |-> TRUE, val |-> <<>>]
Some(s) == [isNone |-> FALSE, val |-> s]
Truthy(o) == ~o.isNone /\ o.val # <<>>

Min(S) == CHOOSE x \in S : \A y \in S : x <= y

\* a normalization that forgets strip()
Normalize_without_strip(text) == Lower(text)

\* a normalization that forgets lower()
Normalize_strip_only(text) == Strip(text)

\* command_text.lower().strip()
Normalize(text) == Strip(Lower(text))

\* datetime.now().isoformat() at the t-th reading of the clock
Digits == <<"0","1","2","3","4","5","6","7","8","9">>
Isoformat(t) == <<"T", Digits[((t \div 10) % 10) + 1], Digits[(t % 10) + 1]>>

\* ------------------------------------------------------------ the registry
\* self.command_whitelist: a dict, kept in insertion order; each item is the
\* trigger with its configuration
DefaultWhitelist ==
    << [trigger |-> s_start_patching, script |-> Some(s_scripts_patch_r2s),
        description |-> s_desc_patching, requires_confirmation |-> FALSE],
       [trigger |-> s_quarantine_servers, script |-> Some(s_scripts_isolate),
        description |-> s_desc_quarantine, requires_confirmation |-> TRUE],
       [trigger |-> s_acknowledge_incident, script |-> None,
        description |-> s_desc_acknowledge, requires_confirmation |-> FALSE],
       [trigger |-> s_emergency_shutdown, script |-> Some(s_scripts_emergency_shutdown),
        description |-> s_desc_shutdown, requires_confirmation |-> TRUE],
       [trigger |-> s_status_report, script |-> Some(s_scripts_status_check),
        description |-> s_desc_status, requires_confirmation |-> FALSE] >>

\* list(d.keys())
Keys(d) == [i \in 1..Len(d) |-> d[i].trigger]
\* k in d
HasKey(d, k) == \E i \in 1..Len(d) : d[i].trigger = k
\* d[k], for a key of d
Item(d, k) == d[CHOOSE i \in 1..Len(d) : d[i].trigger = k]
\* an assignment that moves an existing key to the end
SetItem_moves_to_end(d, k, v) ==
    LET keep == {i \in 1..Len(d) : d[i].trigger # k}
        rank(i) == Cardinality({j \in keep : j <= i})
        rest == [n \in 1..Cardinality(keep) |-> d[CHOOSE i \in keep : rank(i) = n]]
    IN  Append(rest, v)

\* d[k] = v: a new key goes last, an existing key keeps its place
SetItem(d, k, v) ==
    IF HasKey(d, k)
    THEN [i \in 1..Len(d) |-> IF d[i].trigger = k THEN v ELSE d[i]]
    ELSE Append(d, v)

\* the fuzzy table of _match_command, in its order
fuzzy_matches ==
    << [keyword |-> s_patch, trigger |-> s_start_patching],
       [keyword |-> s_quarantine, trigger |-> s_quarantine_servers],
       [keyword |-> s_isolate, trigger |-> s_quarantine_servers],
       [keyword |-> s_acknowledge, trigger |-> s_acknowledge_incident],
       [keyword |-> s_ack, trigger |-> s_acknowledge_incident],
       [keyword |-> s_shutdown, trigger |-> s_emergency_shutdown],
       [keyword |-> s_status, trigger |-> s_status_report],
       [keyword |-> s_report, trigger |-> s_status_report] >>

\* what a call hands back: a value, or an exception on its way to the caller
Return(v) == [raised |-> FALSE, exc |-> <<>>, value |-> v]
Raise(e) == [raised |-> TRUE, exc |-> e, value |-> <<>>]

\* the triggers that are substrings of the text, by position in the registry
DirectHits(whitelist, command_text) ==
    {i \in 1..Len(whitelist) : Contains(whitelist[i].trigger, command_text)}
\* the fuzzy keywords that are substrings of the text, by position in the table
FuzzyHits(command_text) ==
    {j \in 1..Len(fuzzy_matches) : Contains(fuzzy_matches[j].keyword, command_text)}

\* the direct pass (lines 86-89): the first trigger of the registry in the text
DirectMatch(whitelist, command_text) ==
    Return(<<whitelist[Min(DirectHits(whitelist, command_text))]>>)

\* a fuzzy pass that lets the last keyword of the table win
FuzzyMatch_last_keyword(whitelist, command_text) ==
    LET hits == FuzzyHits(command_text)
        last == CHOOSE j \in hits : \A k \in hits : k <= j
    IN  Return(<<Item(whitelist, fuzzy_matches[last].trigger)>>)

\* a fuzzy pass that returns the entry the engine was built with
FuzzyMatch_default_entry(whitelist, command_text) ==
    LET trigger == fuzzy_matches[Min(FuzzyHits(command_text))].trigger
    IN  Return(<<Item(DefaultWhitelist, trigger)>>)

\* the fuzzy pass (lines 103-107): the first keyword of the table in the text;
\* whitelist[trigger] raises KeyError for a trigger that is no key
FuzzyMatch(whitelist, command_text) ==
    LET trigger == fuzzy_matches[Min(FuzzyHits(command_text))].trigger
    IN  IF HasKey(whitelist, trigger)
        THEN Return(<<Item(whitelist, trigger)>>)
        ELSE Raise(<<"K","e","y","E","r","r","o","r">>)

\* a matcher that runs the fuzzy pass before the direct pass
_match_command_fuzzy_first(whitelist, command_text) ==
    IF FuzzyHits(command_text) # {}
    THEN LET trigger == fuzzy_matches[Min(FuzzyHits(command_text))].trigger
         IN  Return(<<Item(whitelist, trigger)>>)
    ELSE IF DirectHits(whitelist, command_text) # {}
    THEN Return(<<whitelist[Min(DirectHits(whitelist, command_text))]>>)
    ELSE Return(<<>>)

\* _match_command: the value is <<>> for None, else <<the matched entry>>
_match_command(whitelist, command_text) ==
    IF DirectHits(whitelist, command_text) # {}
    THEN DirectMatch(whitelist, command_text)
    ELSE IF FuzzyHits(command_text) # {}
    THEN FuzzyMatch(whitelist, command_text)
    ELSE Return(<<>>)

\* a help response that lists the default triggers only
_get_help_response_defaults(whitelist) ==
    s_unknown_command \o Join(s_quote_comma_quote, Keys(DefaultWhitelist))
    \o s_please_try_again

\* _get_help_response
_get_help_response(whitelist) ==
    s_unknown_command \o Join(s_quote_comma_quote, Keys(whitelist)) \o s_please_try_again

\* ------------------------------------------------------- the environment
\* what the file system and the child process do during one call
ScriptWorlds ==
    {"missing", "not_executable", "exit_0", "exit_1", "exit_2", "timeout", "spawn_fault",
     "output_fault"}
AckWorlds == {"ok", "makedirs_fault", "write_fault"}
\* a call runs one handler: either the script's world or the log's matters
Worlds ==
    {[script |-> s, ack |-> "ok"] : s \in ScriptWorlds}
    \cup {[script |-> "exit_0", ack |-> a] : a \in AckWorlds}

\* os.path.exists(script_path)
PathExists(w) == w.script # "missing"
\* os.access(script_path, os.X_OK)
PathExecutable(w) == w.script \notin {"missing", "not_executable"}
\* subprocess.run: the CompletedProcess, for a child that ran to its end
CompletedProcess(w) ==
    [returncode |-> CASE w.script = "exit_0" -> 0
                      [] w.script = "exit_1" -> 1
                      [] OTHER -> 2,
     stdout |-> s_stdout, stderr |-> s_stderr]

\* one call of the os or subprocess module or of a file, with how it ended:
\* exists and access (the call returned True), exists_false and access_false
\* (it returned False), spawn (the child was started), spawn_fault,
\* output_fault (the output of the child could not be decoded), kill (the
\* child was killed at the timeout), exit_0 and exit_nonzero (the child ended
\* with that exit code), makedirs, makedirs_fault, write (a line appended to
\* the file), write_fault
Effect(op, path) == [op |-> op, path |-> path]
s_logs == <<"l","o","g","s">>
s_ack_file == <<"l","o","g","s","/","a","c","k","n","o","w","l","e","d","g","m","e","n","t","s",".","l","o","g">>

\* The part of the state a handler reads and writes: the clock, the
\* acknowledgment log, the logs directory, the calls made, os.environ and the
\* environment given to the child.
\* st == [clock, ack_log, logs_dir, effects, os_environ, child_env]

\* --------------------------------------------------------- the executor
\* _handle_acknowledgment
\* an acknowledgment that reads the clock once for the line and once more for
\* the message
_handle_acknowledgment_reads_clock_twice(cve, w, st) ==
    LET ack_message == s_incident_acknowledged_at \o Isoformat(st.clock + 1)
                       \o (IF Truthy(cve) THEN s_for \o cve.val ELSE <<>>)
        line == Isoformat(st.clock) \o s_colon_space \o ack_message \o s_newline
        st1 == [st EXCEPT !.clock = @ + 2]
        made == [st1 EXCEPT !.logs_dir = TRUE,
                            !.effects = Append(@, Effect("makedirs", s_logs))]
    IN  IF w.ack = "makedirs_fault"
        THEN [ret |-> Raise(s_permission_denied_logs), outcome |-> "raised",
              st |-> [st1 EXCEPT !.effects = Append(@, Effect("makedirs_fault", s_logs))]]
        ELSE IF w.ack = "write_fault"
        THEN [ret |-> Return(s_acknowledged_and_logged), outcome |-> "acknowledged",
              st |-> [made EXCEPT !.effects = Append(@, Effect("write_fault", s_ack_file))]]
        ELSE [ret |-> Return(s_acknowledged_and_logged), outcome |-> "acknowledged",
              st |-> [made EXCEPT !.ack_log = Append(@, line),
                                  !.effects = Append(@, Effect("write", s_ack_file))]]

_handle_acknowledgment(cve, w, st) ==
    LET timestamp == Isoformat(st.clock)
        ack_message == s_incident_acknowledged_at \o timestamp
                       \o (IF Truthy(cve) THEN s_for \o cve.val ELSE <<>>)
        line == timestamp \o s_colon_space \o ack_message \o s_newline
        st1 == [st EXCEPT !.clock = @ + 1]
        made == [st1 EXCEPT !.logs_dir = TRUE,
                            !.effects = Append(@, Effect("makedirs", s_logs))]
    IN  IF w.ack = "makedirs_fault"
        THEN [ret |-> Raise(s_permission_denied_logs), outcome |-> "raised",
              st |-> [st1 EXCEPT !.effects = Append(@, Effect("makedirs_fault", s_logs))]]
        ELSE IF w.ack = "write_fault"
        THEN [ret |-> Return(s_acknowledged_and_logged), outcome |-> "acknowledged",
              st |-> [made EXCEPT !.effects = Append(@, Effect("write_fault", s_ack_file))]]
        ELSE [ret |-> Return(s_acknowledged_and_logged), outcome |-> "acknowledged",
              st |-> [made EXCEPT !.ack_log = Append(@, line),
                                  !.effects = Append(@, Effect("write", s_ack_file))]]

\* an environment for the child that is os.environ itself, not a copy of it
EnvironAliased(environ, cve, clk) ==
    LET env == [environ EXCEPT !.CVE_ID = IF Truthy(cve) THEN cve ELSE @,
                               !.TIMESTAMP = Some(Isoformat(clk))]
    IN  [parent |-> env, env |-> env]

\* an environment for the child in which CVE_ID is never written
EnvironWithoutCve(environ, cve, clk) ==
    [parent |-> environ,
     env |-> [environ EXCEPT !.TIMESTAMP = Some(Isoformat(clk))]]

\* lines 164-167: os.environ and env, its copy, after the writes to env
EnvironAndCopy(environ, cve, clk) ==
    [parent |-> environ,
     env |-> [environ EXCEPT !.CVE_ID = IF Truthy(cve) THEN cve ELSE @,
                             !.TIMESTAMP = Some(Isoformat(clk))]]

\* path checks that look at the execute permission only
PathChecks_access_only(script_path, w) ==
    IF ~PathExecutable(w)
    THEN [verdict |-> "not_executable",
          effects |-> <<Effect("access_false", script_path)>>]
    ELSE [verdict |-> "ok", effects |-> <<Effect("access", script_path)>>]

\* lines 154-160: os.path.exists, then os.access
PathChecks(script_path, w) ==
    IF ~PathExists(w)
    THEN [verdict |-> "not_found",
          effects |-> <<Effect("exists_false", script_path)>>]
    ELSE IF ~PathExecutable(w)
    THEN [verdict |-> "not_executable",
          effects |-> <<Effect("exists", script_path),
                        Effect("access_false", script_path)>>]
    ELSE [verdict |-> "ok",
          effects |-> <<Effect("exists", script_path), Effect("access", script_path)>>]

\* a subprocess.run that starts the script once more after a non-zero exit code
SubprocessRun_retries(script_path, w) ==
    IF ~PathExists(w)
    THEN [kind |-> "fault", exc |-> s_no_such_file, result |-> CompletedProcess(w),
          effects |-> <<Effect("spawn_fault", script_path)>>]
    ELSE IF ~PathExecutable(w)
    THEN [kind |-> "fault", exc |-> s_permission_denied_script,
          result |-> CompletedProcess(w),
          effects |-> <<Effect("spawn_fault", script_path)>>]
    ELSE IF w.script = "spawn_fault"
    THEN [kind |-> "fault", exc |-> s_exec_format_error, result |-> CompletedProcess(w),
          effects |-> <<Effect("spawn_fault", script_path)>>]
    ELSE IF w.script = "timeout"
    THEN [kind |-> "timeout", exc |-> s_empty, result |-> CompletedProcess(w),
          effects |-> <<Effect("spawn", script_path), Effect("kill", script_path)>>]
    ELSE IF w.script = "output_fault"
    THEN [kind |-> "fault", exc |-> s_cannot_decode, result |-> CompletedProcess(w),
          effects |-> <<Effect("spawn", script_path),
                        Effect("output_fault", script_path)>>]
    ELSE IF CompletedProcess(w).returncode = 0
    THEN [kind |-> "completed", exc |-> s_empty, result |-> CompletedProcess(w),
          effects |-> <<Effect("spawn", script_path), Effect("exit_0", script_path)>>]
    ELSE [kind |-> "completed", exc |-> s_empty, result |-> CompletedProcess(w),
          effects |-> <<Effect("spawn", script_path), Effect("exit_nonzero", script_path),
                        Effect("spawn", script_path), Effect("exit_nonzero", script_path)>>]

\* lines 171-177: subprocess.run([script_path], text=True, timeout=300): the
\* child cannot be started (OSError), or it is killed at the timeout
\* (TimeoutExpired), or its output is no text (UnicodeDecodeError), or it ends
\* with an exit code
SubprocessRun(script_path, w) ==
    IF ~PathExists(w)
    THEN [kind |-> "fault", exc |-> s_no_such_file, result |-> CompletedProcess(w),
          effects |-> <<Effect("spawn_fault", script_path)>>]
    ELSE IF ~PathExecutable(w)
    THEN [kind |-> "fault", exc |-> s_permission_denied_script,
          result |-> CompletedProcess(w),
          effects |-> <<Effect("spawn_fault", script_path)>>]
    ELSE IF w.script = "spawn_fault"
    THEN [kind |-> "fault", exc |-> s_exec_format_error, result |-> CompletedProcess(w),
          effects |-> <<Effect("spawn_fault", script_path)>>]
    ELSE IF w.script = "timeout"
    THEN [kind |-> "timeout", exc |-> s_empty, result |-> CompletedProcess(w),
          effects |-> <<Effect("spawn", script_path), Effect("kill", script_path)>>]
    ELSE IF w.script = "output_fault"
    THEN [kind |-> "fault", exc |-> s_cannot_decode, result |-> CompletedProcess(w),
          effects |-> <<Effect("spawn", script_path),
                        Effect("output_fault", script_path)>>]
    ELSE [kind |-> "completed", exc |-> s_empty, result |-> CompletedProcess(w),
          effects |-> <<Effect("spawn", script_path),
                        Effect(IF CompletedProcess(w).returncode = 0
                               THEN "exit_0" ELSE "exit_nonzero", script_path)>>]

\* a result message that treats every exit code as success
ScriptResultMessage_any_exit(command_name, result) ==
    command_name \o s_completed_successfully

\* lines 179-185: the message for a child that ran to its end
ScriptResultMessage(command_name, result) ==
    IF result.returncode = 0
    THEN command_name \o s_completed_successfully
    ELSE command_name \o s_failed_check_logs

\* _execute_script
_execute_script(script_path, command_name, cve, w, st) ==
    LET chk == PathChecks(script_path, w)
        st1 == [st EXCEPT !.effects = @ \o chk.effects]
        ec == EnvironAndCopy(st.os_environ, cve, st.clock)
        run == SubprocessRun(script_path, w)
        st2 == [st1 EXCEPT !.clock = @ + 1, !.os_environ = ec.parent,
                           !.child_env = <<ec.env>>,
                           !.effects = @ \o run.effects]
    IN  IF chk.verdict = "not_found"
        THEN [ret |-> Return(s_script_ \o script_path \o s_not_found),
              outcome |-> "config_error", st |-> st1]
        ELSE IF chk.verdict = "not_executable"
        THEN [ret |-> Return(s_script_ \o script_path \o s_is_not_executable),
              outcome |-> "config_error", st |-> st1]
        ELSE IF run.kind = "fault"
        THEN [ret |-> Return(s_error_executing \o command_name \o s_colon_space
                             \o run.exc),
              outcome |-> "script_error", st |-> st2]
        ELSE IF run.kind = "timeout"
        THEN [ret |-> Return(command_name \o s_timed_out),
              outcome |-> "timed_out", st |-> st2]
        ELSE [ret |-> Return(ScriptResultMessage(command_name, run.result)),
              outcome |-> IF run.result.returncode = 0 THEN "succeeded" ELSE "failed",
              st |-> st2]

\* a dispatch that looks at the script path before the trigger
Dispatch_by_script(command_config, cve, w, st) ==
    IF Truthy(command_config.script)
    THEN _execute_script(command_config.script.val, command_config.trigger,
                         cve, w, st)
    ELSE IF command_config.trigger = s_acknowledge_incident
    THEN _handle_acknowledgment(cve, w, st)
    ELSE [ret |-> Return(s_command_quote \o command_config.trigger
                         \o s_no_action_configured),
          outcome |-> "no_action", st |-> st]

\* The handler _execute_command chooses inside its try block
Dispatch(command_config, cve, w, st) ==
    IF command_config.trigger = s_acknowledge_incident
    THEN _handle_acknowledgment(cve, w, st)
    ELSE IF Truthy(command_config.script)
    THEN _execute_script(command_config.script.val, command_config.trigger,
                         cve, w, st)
    ELSE [ret |-> Return(s_command_quote \o command_config.trigger
                         \o s_no_action_configured),
          outcome |-> "no_action", st |-> st]

\* an _execute_command without its except clause
_execute_command_no_except(command_config, original_text, cve, w, st) ==
    Dispatch(command_config, cve, w, st)

\* _execute_command: the try block, and its except clause
_execute_command(command_config, original_text, cve, w, st) ==
    LET r == Dispatch(command_config, cve, w, st)
    IN  IF r.ret.raised
        THEN [ret |-> Return(s_failed_to_execute \o command_config.trigger
                             \o s_dot_error \o r.ret.exc),
              outcome |-> "execute_error", st |-> r.st]
        ELSE r

\* _log_command: the log entry
LogEntry(command_text, cve, clk) ==
    [timestamp |-> Isoformat(clk), command |-> command_text, cve_id |-> cve,
     source |-> "voice_command"]

\* a registration that keeps the trigger as it was given
WithCustomCommand_key_as_given(whitelist, trigger, script_path, description) ==
    SetItem(whitelist, trigger,
            [trigger |-> trigger, script |-> script_path,
             description |-> description, requires_confirmation |-> TRUE])

\* a registration that starts again from the default registry
WithCustomCommand_from_defaults(whitelist, trigger, script_path, description) ==
    SetItem(DefaultWhitelist, Lower(trigger),
            [trigger |-> Lower(trigger), script |-> script_path,
             description |-> description, requires_confirmation |-> TRUE])

\* add_custom_command: the new registry
WithCustomCommand(whitelist, trigger, script_path, description) ==
    SetItem(whitelist, Lower(trigger),
            [trigger |-> Lower(trigger), script |-> script_path,
             description |-> description, requires_confirmation |-> TRUE])

\* ---------------------------------------------------------------- inputs
\* process_voice_command calls: (what the engineer said, as transcribed; the
\* correlation id: absent, empty, or a CVE id)
Commands ==
    { <<s_please_start_patching_now, Some(s_cve_55182)>>,
      <<s_please_start_patching_now, None>>,
      <<s_ACK_ws, Some(s_cve_55182)>>,
      <<s_Status_ACK_ws, None>>,
      <<s_deploy_fix_now, Some(s_cve_55182)>>,
      <<s_quarantine_all_servers, Some(s_cve_55182)>>,
      <<s_xyzzy, None>> }
\* add_custom_command calls: (trigger, script_path, description)
CustomCommands ==
    { <<s_Deploy_Fix, Some(s_scripts_deploy), s_desc_deploy>>,
      <<s_deploy_fix, None, s_custom_command_desc>>,
      <<s_acknowledge_incident, Some(s_scripts_ack), s_desc_custom_ack>> }
MatchCustomCommands ==
    { <<s_Deploy_Fix, Some(s_scripts_deploy), s_desc_deploy>>,
      <<s_acknowledge_incident, Some(s_scripts_ack), s_desc_custom_ack>>,
      <<s_start_patching_database, Some(s_scripts_db), s_desc_db>> }

\* the inputs of the matcher: up to MaxPieces pieces, concatenated
Pieces ==
    { s_start_patching, s_quarantine_servers, s_acknowledge_incident,
      s_emergency_shutdown, s_status_report,
      s_patch, s_quarantine, s_isolate, s_acknowledge, s_ack, s_shutdown,
      s_status, s_report,
      s_start_patching_database, s_Deploy_Fix,
      s_Now_ws }
MatchInputs == UNION {{Join(<<" ">>, ps) : ps \in [1..n -> Pieces]} : n \in 0..MaxPieces}

\* os.environ when the engine starts: with or without a CVE_ID of its own
Environs ==
    { [CVE_ID |-> c, TIMESTAMP |-> None, PATH |-> Some(s_usr_bin)]
      : c \in {None, Some(s_cve_stale)} }

\* ----------------------------------------------------------------- state
VARIABLES
    command_whitelist,  \* self.command_whitelist
    heap,               \* the log entry objects, by identity (order of creation)
    command_history,    \* self.command_history: references into heap
    clock,              \* readings of datetime.now() so far
    ack_log,            \* the lines of logs/acknowledgments.log
    ack_log_before,     \* ack_log when the current call began
    logs_dir,           \* whether the directory logs exists
    os_environ,         \* os.environ of the engine's process
    pc,                 \* where the current process_voice_command call is:
                        \* received, matched, unmatched, executing; done when it
                        \* has returned; idle at the start and after the registry
                        \* or an entry was written since
    raw_text,           \* its command_text argument, as given
    command_text,       \* its command_text after line 59
    cve_id,             \* its cve_id argument
    matched_command,    \* its matched_command: <<>> for None, else <<entry>>
    result,             \* the string it returned
    raised,             \* whether a fault left it for the caller
    outcome,            \* the return statement that ended it
    effects,            \* the os and subprocess calls it has made
    child_env,          \* the env it gave to subprocess.run, if any: <<env>>
    returned,           \* the list get_command_history gave its caller, which
                        \* the caller keeps until the next process_voice_command
    ncalls,             \* process_voice_command calls so far
    \* the orchestrator (voicealert_system.py) and the voice interface
    running,            \* self.running
    stop_seen,          \* stop() was called from outside start(): by the signal
                        \* handler or by another caller
    sys_pc,             \* where the main thread is in start / _main_loop /
                        \* _process_vulnerability
    new_cves,           \* the batch the last scan returned
    idx,                \* iterations of `for cve_raw in new_cves` begun
    bound_cve_id,       \* cve_id of _process_vulnerability, bound in command_callback
    iface,              \* the voice interface or caller the system was built with
    conv_pc,            \* where start_conversation is
    attempts,           \* its local attempts
    response,           \* the last value listen() returned
    depth,              \* start_conversation frames on the stack
    conversation_turns, \* the turns of the agent's conversation not yet looked at
    \* the phone caller (voice_caller.py)
    active_calls,       \* self.active_calls: the records by call id
    call_id,            \* the call id of the VoiceCaller method last called
    call_result,        \* the method and what it returned, as a text: the
                        \* response, True or False, or call_id for the id that
                        \* is in call_id
    \* the configuration (config.py)
    _config,            \* self._config of VoiceAlertConfig
    config_result       \* the method of it last called, its key argument, what
                        \* it returned, and whether get_all was called before

vars == <<command_whitelist, heap, command_history, clock, ack_log, ack_log_before, logs_dir,
          os_environ, pc, raw_text, command_text, cve_id, matched_command,
          result, raised, outcome, effects, child_env, returned, ncalls,
          running, stop_seen, sys_pc, new_cves, idx, bound_cve_id, iface, conv_pc,
          attempts, response, depth, conversation_turns,
          active_calls, call_id, call_result, _config, config_result>>

calls == <<active_calls, call_id, call_result>>
configuration == <<_config, config_result>>
alert == <<running, stop_seen, sys_pc, new_cves, idx, bound_cve_id, iface, conv_pc,
           attempts, response, depth, conversation_turns, calls, configuration>>
engine == <<command_whitelist, heap, command_history>>
disk == <<ack_log, logs_dir>>
call == <<raw_text, command_text, cve_id, matched_command, result, raised,
          outcome, effects, child_env, ack_log_before>>

NoList == [held |-> FALSE, list |-> <<>>]
\* VoiceCaller.__init__, line 23: no record; and no method called yet
NoCalls ==
    /\ active_calls = [c \in {} |-> {}]
    /\ call_id = ""
    /\ call_result = [method |-> "none", value |-> <<>>]
\* no VoiceAlertConfig is looked at
NoConfig ==
    /\ _config = <<>>
    /\ config_result = [method |-> "none", key |-> "", value |-> <<>>, masked |-> FALSE]

\* the engine on its own: no orchestrator and no voice interface around it
NoAlertSystem ==
    /\ running = FALSE
    /\ stop_seen = FALSE
    /\ sys_pc = "none"
    /\ new_cves = <<>>
    /\ idx = 0
    /\ bound_cve_id = <<>>
    /\ iface = "none"
    /\ conv_pc = "none"
    /\ attempts = 0
    /\ response = None
    /\ depth = 0
    /\ conversation_turns = <<>>
    /\ NoCalls
    /\ NoConfig

\* the state after CommandEngine() (lines 13-47)
InitEngine ==
    /\ command_whitelist = DefaultWhitelist
    /\ heap = <<>>
    /\ command_history = <<>>
    /\ clock = 0
    /\ ack_log = <<>>
    /\ ack_log_before = <<>>
    /\ logs_dir = FALSE
    /\ pc = "idle"
    /\ raw_text = <<>>
    /\ command_text = <<>>
    /\ cve_id = None
    /\ matched_command = <<>>
    /\ result = <<>>
    /\ raised = FALSE
    /\ outcome = "none"
    /\ effects = <<>>
    /\ child_env = <<>>
    /\ returned = NoList
    /\ ncalls = 0

\* the state after CommandEngine() (lines 13-47), in a process started with
\* one of the environments
InitEnv ==
    /\ NoAlertSystem
    /\ command_whitelist = DefaultWhitelist
    /\ heap = <<>>
    /\ command_history = <<>>
    /\ clock = 0
    /\ ack_log = <<>>
    /\ ack_log_before = <<>>
    /\ logs_dir = FALSE
    /\ os_environ \in Environs
    /\ pc = "idle"
    /\ raw_text = <<>>
    /\ command_text = <<>>
    /\ cve_id = None
    /\ matched_command = <<>>
    /\ result = <<>>
    /\ raised = FALSE
    /\ outcome = "none"
    /\ effects = <<>>
    /\ child_env = <<>>
    /\ returned = NoList
    /\ ncalls = 0

\* the state after CommandEngine() (lines 13-47), in a process started with
\* no CVE_ID of its own
Init ==
    /\ InitEnv
    /\ os_environ.CVE_ID = None

\* no call is in progress
AtRest == pc \in {"idle", "done"}

\* process_voice_command is entered, lines 59-64: normalize, then _log_command
process_voice_command(text, cve) ==
    /\ AtRest
    /\ ncalls < MaxCalls
    /\ ncalls' = ncalls + 1
    /\ raw_text' = text
    /\ command_text' = Normalize(text)
    /\ cve_id' = cve
    /\ heap' = Append(heap, LogEntry(Normalize(text), cve, clock))
    /\ command_history' = Append(command_history, Len(heap) + 1)
    /\ clock' = clock + 1
    /\ matched_command' = <<>>
    /\ result' = <<>>
    /\ raised' = FALSE
    /\ outcome' = "none"
    /\ effects' = <<>>
    /\ child_env' = <<>>
    /\ returned' = NoList
    /\ ack_log_before' = ack_log
    /\ pc' = "received"
    /\ UNCHANGED <<command_whitelist, ack_log, logs_dir, os_environ>>

\* a call that does not log the command it received
ReceiveCommand_unlogged(text, cve) ==
    /\ AtRest
    /\ ncalls < MaxCalls
    /\ ncalls' = ncalls + 1
    /\ raw_text' = text
    /\ command_text' = Normalize(text)
    /\ cve_id' = cve
    /\ matched_command' = <<>>
    /\ result' = <<>>
    /\ raised' = FALSE
    /\ outcome' = "none"
    /\ effects' = <<>>
    /\ child_env' = <<>>
    /\ returned' = NoList
    /\ ack_log_before' = ack_log
    /\ pc' = "received"
    /\ UNCHANGED <<engine, clock, ack_log, logs_dir, os_environ>>
    /\ UNCHANGED alert

\* a process_voice_command call made on the engine directly
ReceiveCommand(text, cve) ==
    /\ process_voice_command(text, cve)
    /\ UNCHANGED alert

\* a matcher that looks for triggers and keywords in every command logged so
\* far, not in the current one alone
MatchCommand_over_history ==
    /\ pc = "received"
    /\ LET logged == [i \in 1..Len(command_history) |-> heap[command_history[i]].command]
           m == _match_command(command_whitelist, Join(<<" ">>, logged))
       IN  /\ raised' = m.raised
           /\ matched_command' = m.value
           /\ pc' = IF m.raised THEN "done"
                    ELSE IF m.value = <<>> THEN "unmatched" ELSE "matched"
           /\ outcome' = IF m.raised THEN "raised" ELSE outcome
    /\ UNCHANGED <<engine, clock, disk, os_environ, raw_text, command_text, cve_id,
                   result, effects, child_env, ack_log_before, returned, ncalls>>
    /\ UNCHANGED alert

\* process_voice_command, line 67: _match_command
MatchCommand ==
    /\ pc = "received"
    /\ LET m == _match_command(command_whitelist, command_text)
       IN  /\ raised' = m.raised
           /\ matched_command' = m.value
           /\ pc' = IF m.raised THEN "done"
                    ELSE IF m.value = <<>> THEN "unmatched" ELSE "matched"
           /\ outcome' = IF m.raised THEN "raised" ELSE outcome
    /\ UNCHANGED <<engine, clock, disk, os_environ, raw_text, command_text, cve_id,
                   result, effects, child_env, ack_log_before, returned, ncalls>>
    /\ UNCHANGED alert

\* an unmatched command that goes on to _execute_command
ReturnHelp_falls_through ==
    /\ pc = "unmatched"
    /\ pc' = "executing"
    /\ UNCHANGED <<engine, clock, disk, os_environ, call, returned, ncalls>>
    /\ UNCHANGED alert

\* process_voice_command, lines 69-71: no match, the help response
ReturnHelp ==
    /\ pc = "unmatched"
    /\ result' = _get_help_response(command_whitelist)
    /\ outcome' = "help"
    /\ pc' = "done"
    /\ UNCHANGED <<engine, clock, disk, os_environ, raw_text, command_text, cve_id,
                   matched_command, raised, effects, child_env, ack_log_before, returned,
                   ncalls>>
    /\ UNCHANGED alert

\* process_voice_command, line 74: _execute_command is entered (lines 122-126)
BeginExecute ==
    /\ pc = "matched"
    /\ pc' = "executing"
    /\ UNCHANGED <<engine, clock, disk, os_environ, call, returned, ncalls>>
    /\ UNCHANGED alert

\* _execute_command, lines 128-141, in a world w
ExecuteCommand(w) ==
    /\ pc = "executing"
    /\ LET r == _execute_command(matched_command[1], command_text, cve_id, w,
                                 [clock |-> clock, ack_log |-> ack_log,
                                  logs_dir |-> logs_dir, effects |-> effects,
                                  os_environ |-> os_environ,
                                  child_env |-> child_env])
       IN  /\ raised' = r.ret.raised
           /\ result' = r.ret.value
           /\ outcome' = r.outcome
           /\ clock' = r.st.clock
           /\ ack_log' = r.st.ack_log
           /\ logs_dir' = r.st.logs_dir
           /\ effects' = r.st.effects
           /\ os_environ' = r.st.os_environ
           /\ child_env' = r.st.child_env
    /\ pc' = "done"
    /\ UNCHANGED <<engine, raw_text, command_text, cve_id, matched_command,
                   ack_log_before, returned, ncalls>>
    /\ UNCHANGED alert

\* add_custom_command (lines 261-275)
AddCustomCommand(c) ==
    /\ AtRest
    /\ command_whitelist' = WithCustomCommand(command_whitelist, c[1], c[2], c[3])
    /\ pc' = "idle"
    /\ UNCHANGED <<heap, command_history, clock, disk, os_environ, call, returned, ncalls>>
    /\ UNCHANGED alert

\* get_command_history (lines 253-259): list.copy(), a new list of the same entries
GetCommandHistory ==
    /\ AtRest
    /\ returned' = [held |-> TRUE, list |-> command_history]
    /\ UNCHANGED <<engine, clock, disk, os_environ, pc, call, ncalls>>
    /\ UNCHANGED alert

\* the caller of get_command_history removes the first item of its list
CallerPopsList ==
    /\ AtRest
    /\ returned.held
    /\ returned.list # <<>>
    /\ returned' = [returned EXCEPT !.list = Tail(@)]
    /\ pc' = "idle"
    /\ UNCHANGED <<engine, clock, disk, os_environ, call, ncalls>>
    /\ UNCHANGED alert

\* the caller of get_command_history assigns to a field of an entry of its list
CallerEditsEntry(i) ==
    /\ AtRest
    /\ returned.held
    /\ i \in 1..Len(returned.list)
    /\ heap' = [heap EXCEPT ![returned.list[i]].command = s_tampered]
    /\ pc' = "idle"
    /\ UNCHANGED <<command_whitelist, command_history, clock, disk, os_environ, call,
                   returned, ncalls>>
    /\ UNCHANGED alert

Next ==
    \/ \E c \in Commands : ReceiveCommand(c[1], c[2])
    \/ MatchCommand
    \/ ReturnHelp
    \/ BeginExecute
    \/ \E w \in Worlds : ExecuteCommand(w)
    \/ \E c \in CustomCommands : AddCustomCommand(c)
    \/ GetCommandHistory

Spec == Init /\ [][Next]_vars

\* ------------------------------------------- the environment of the child
\* process_voice_command calls alone, with a correlation id that is given,
\* absent or empty, in a process whose own environment may hold a CVE_ID
EnvCommands ==
    { <<s_please_start_patching_now, Some(s_cve_55182)>>,
      <<s_please_start_patching_now, None>>,
      <<s_please_start_patching_now, Some(s_empty)>>,
      <<s_quarantine_all_servers, Some(s_cve_55182)>>,
      <<s_ACK_ws, Some(s_cve_55182)>>,
      <<s_emergency_shutdown, Some(s_cve_55182)>>,
      <<s_Shutdown_everything, None>>,
      <<s_xyzzy, None>> }

\* ENABLE_EMERGENCY_SHUTDOWN in the environment: unset, or set to a text
ShutdownSettings == {None, Some(s_false), Some(s_true), Some(s_TRUE), Some(s_one)}
\* config.py line 45: os.getenv("ENABLE_EMERGENCY_SHUTDOWN", "false").lower() == "true"
enable_emergency_shutdown(setting) ==
    Lower(IF setting.isNone THEN s_false ELSE setting.val) = s_true

NextEnv ==
    \/ \E c \in EnvCommands : ReceiveCommand(c[1], c[2])
    \/ MatchCommand
    \/ ReturnHelp
    \/ BeginExecute
    \/ \E w \in Worlds : ExecuteCommand(w)

SpecEnv == InitEnv /\ [][NextEnv]_vars

\* ------------------------------------- a caller that writes to what it got
\* The engine with a caller that modifies the value get_command_history
\* returned: the list, or an entry of it.
NextCaller ==
    \/ Next
    \/ CallerPopsList
    \/ \E i \in 1..MaxCalls : CallerEditsEntry(i)

SpecCaller == Init /\ [][NextCaller]_vars

\* ------------------------------------------------ the matcher on its own
\* The input is drawn at the start; the registry is extended by
\* add_custom_command calls; then lines 59 and 67 are applied to the input.
InitMatch ==
    /\ NoAlertSystem
    /\ command_whitelist = DefaultWhitelist
    /\ heap = <<>>
    /\ command_history = <<>>
    /\ clock = 0
    /\ ack_log = <<>>
    /\ ack_log_before = <<>>
    /\ logs_dir = FALSE
    /\ os_environ = [CVE_ID |-> None, TIMESTAMP |-> None, PATH |-> Some(s_usr_bin)]
    /\ pc = "idle"
    /\ raw_text \in MatchInputs
    /\ command_text = <<>>
    /\ cve_id = None
    /\ matched_command = <<>>
    /\ result = <<>>
    /\ raised = FALSE
    /\ outcome = "none"
    /\ effects = <<>>
    /\ child_env = <<>>
    /\ returned = NoList
    /\ ncalls = 0

ResolveIntent ==
    /\ pc = "idle"
    /\ LET m == _match_command(command_whitelist, Normalize(raw_text))
       IN  /\ command_text' = Normalize(raw_text)
           /\ raised' = m.raised
           /\ matched_command' = m.value
    /\ pc' = "done"
    /\ UNCHANGED <<engine, clock, disk, os_environ, raw_text, cve_id, result, outcome,
                   effects, child_env, ack_log_before, returned, ncalls>>
    /\ UNCHANGED alert

RegisterBeforeMatch(c) ==
    /\ pc = "idle"
    /\ AddCustomCommand(c)

NextMatch ==
    \/ \E c \in MatchCustomCommands : RegisterBeforeMatch(c)
    \/ ResolveIntent

SpecMatch == InitMatch /\ [][NextMatch]_vars


\* ------------------------------------------------- the voice interfaces
\* start_conversation of MockVoiceInterface, EnhancedVoiceInterface and
\* SimpleVoiceInterface (the three create_voice_interface can return) and of
\* VoiceInterface, without and with an agent id.  The callback is
\* process_voice_command with the correlation id bound at line 151.
max_attempts == 3

MicrophoneInterfaces == {"mock", "enhanced", "simple"}
Callers == {"mock_caller", "caller"}
DirectInterfaces == MicrophoneInterfaces \cup {"voice", "voice_with_agent"}

orch == <<running, stop_seen, sys_pc, new_cves, idx, bound_cve_id, iface, calls,
          configuration>>
loop == <<attempts, response, depth, conversation_turns>>
whole_engine == <<command_whitelist, heap, command_history, clock, ack_log, ack_log_before,
                  logs_dir, os_environ, pc, raw_text, command_text, cve_id,
                  matched_command, result, raised, outcome, effects, child_env,
                  returned, ncalls>>

\* what the engineer may say
Utterances == {s_mock_start_patching, s_acknowledge_incident, s_xyzzy}

\* the values listen() can return: None or a stripped, non-empty text; the
\* listen of VoiceInterface returns text.lower().strip() of whatever the
\* recognizer heard, which may be empty
AllListenResults == {None, Some(s_quit), Some(s_empty)} \cup {Some(u) : u \in Utterances}
ListenResults(i) ==
    {None} \cup {Some(u) : u \in Utterances}
    \cup (IF i = "mock" THEN {Some(s_quit)} ELSE {})
    \cup (IF i = "voice" THEN {Some(s_empty)} ELSE {})

\* the conversations an agent simulation can return: turns of the agent and
\* of the user, with and without a command keyword
AgentConversations ==
    { <<>>,
      <<[role |-> "agent", content |-> s_Status_ACK_ws],
        [role |-> "user", content |-> s_xyzzy]>>,
      <<[role |-> "user", content |-> s_please_start_patching_now]>>,
      <<[role |-> "user", content |-> s_please_start_patching_now],
        [role |-> "user", content |-> s_quarantine_all_servers]>> }
\* _process_agent_conversation, line 242
command_keywords == <<s_patch, s_quarantine, s_isolate, s_acknowledge, s_shutdown, s_status>>
\* lines 237 and 244-245: a turn of the user that holds a command keyword
IsCommandTurn(turn) ==
    /\ turn.role = "user"
    /\ turn.content # <<>>
    /\ \E k \in 1..Len(command_keywords) : Contains(command_keywords[k], Lower(turn.content))
CommandTurns(turns) == {k \in 1..Len(turns) : IsCommandTurn(turns[k])}

\* the test that takes a listen for unanswered: `response is None` in
\* VoiceInterface, `not response` in the others
NoResponse(i, r) ==
    IF i \in {"voice", "voice_with_agent"} THEN r.isNone ELSE ~Truthy(r)

\* the words that end a conversation
EndWords(i) ==
    IF i \in {"simple", "enhanced"}
    THEN {s_completed, s_acknowledged, s_successful}
    ELSE {s_completed, s_acknowledged}
SignalsCompletion(i, text) == \E w \in EndWords(i) : Contains(w, Lower(text))

\* the worlds a command of a conversation runs in
ConversationWorlds ==
    {w \in Worlds : \/ w.ack = "ok" /\ w.script \in {"exit_0", "exit_1", "timeout", "missing"}
                    \/ w.ack = "makedirs_fault"}

\* start_conversation is entered: VoiceInterface with an agent id hands over
\* to simulate_conversation_with_agent (lines 265-266), VoiceInterface without
\* speaks the alert first, the others go to their loop with attempts = 0
start_conversation ==
    /\ depth' = depth + 1
    /\ response' = None
    /\ attempts' = 0
    /\ conv_pc' = IF iface = "voice_with_agent" THEN "simulating"
                  ELSE IF iface = "voice" THEN "speaking"
                  ELSE "prompt"

\* the conversation is over: start_conversation returns to its caller
ConversationEnds(how) ==
    /\ conv_pc' = how
    /\ depth' = 0

\* VoiceInterface.start_conversation, lines 275-277: the alert is spoken, or
\* the audio fails and the conversation is not held
SpeakAlert(spoken) ==
    /\ conv_pc = "speaking"
    /\ IF spoken
       THEN conv_pc' = "prompt" /\ depth' = depth
       ELSE ConversationEnds("ended")
    /\ UNCHANGED <<orch, whole_engine, attempts, response, conversation_turns>>

\* a loop that listens again while the callback is still running
Listen_during_callback(r) ==
    /\ conv_pc \in {"prompt", "in_callback"}
    /\ r \in ListenResults(iface)
    /\ response' = r
    /\ conv_pc' = IF NoResponse(iface, r) THEN "prompt" ELSE "heard"
    /\ UNCHANGED <<orch, whole_engine, attempts, depth, conversation_turns>>

\* one turn of the loop up to the callback: the prompt is spoken, listen()
\* returns r.  Mock (lines 421-431): no reply, or quit/exit/end, ends the
\* conversation.  The others (simple 89-102, enhanced 528-541, voice
\* 283-294): an unanswered listen counts, the third in a row ends the
\* conversation.
Listen(r) ==
    /\ conv_pc = "prompt"
    /\ r \in ListenResults(iface)
    /\ ~NoResponse(iface, r) => ncalls < MaxCalls
    /\ response' = r
    /\ IF iface = "mock"
       THEN /\ attempts' = attempts
            /\ IF NoResponse(iface, r) \/ Lower(r.val) \in {s_quit, s_exit, s_end}
               THEN ConversationEnds("ended")
               ELSE conv_pc' = "heard" /\ depth' = depth
       ELSE IF NoResponse(iface, r)
       THEN /\ attempts' = attempts + 1
            /\ IF attempts + 1 < max_attempts
               THEN conv_pc' = "prompt" /\ depth' = depth
               ELSE ConversationEnds("ended")
       ELSE /\ attempts' = attempts
            /\ conv_pc' = "heard"
            /\ depth' = depth
    /\ UNCHANGED <<orch, whole_engine, conversation_turns>>

\* MockVoiceInterface.listen, line 407: input() raises (EOFError), and the
\* exception leaves start_conversation
ListenRaises ==
    /\ conv_pc = "prompt"
    /\ iface = "mock"
    /\ ConversationEnds("raised")
    /\ UNCHANGED <<orch, whole_engine, attempts, response, conversation_turns>>

\* a callback that passes no correlation id
InvokeCallback_without_id ==
    /\ conv_pc \in {"heard", "agent_heard"}
    /\ process_voice_command(response.val, None)
    /\ conv_pc' = IF conv_pc = "heard" THEN "in_callback" ELSE "in_agent_callback"
    /\ UNCHANGED <<orch, loop>>

\* command_callback(response): process_voice_command(cmd, cve_id) is entered
\* (voicealert_system.py 151; simple 106, enhanced 545, voice 298 and 246,
\* mock 433)
InvokeCallback ==
    /\ conv_pc \in {"heard", "agent_heard"}
    /\ process_voice_command(response.val, Some(bound_cve_id))
    /\ conv_pc' = IF conv_pc = "heard" THEN "in_callback" ELSE "in_agent_callback"
    /\ UNCHANGED <<orch, loop>>

\* a loop that goes on after a result that signals completion
CallbackReturns_goes_on ==
    /\ conv_pc = "in_callback"
    /\ pc = "done"
    /\ attempts' = 0
    /\ conv_pc' = "prompt"
    /\ UNCHANGED <<orch, whole_engine, response, depth, conversation_turns>>

\* command_callback(response) raises: a callback other than the engine's,
\* which returns a message for every fault.  The exception leaves the loops
\* that have no try (simple 106, enhanced 545, mock 433), is turned into an
\* "Error: ..." result by VoiceInterface (316-319), and is logged and dropped
\* for a turn of the agent (250-251), whose later turns are still looked at
CallbackRaises ==
    /\ conv_pc \in {"heard", "agent_heard"}
    /\ sys_pc = "direct"
    /\ IF conv_pc = "agent_heard"
       THEN conv_pc' = "agent_turns" /\ depth' = depth
       ELSE ConversationEnds(IF iface = "voice" THEN "ended" ELSE "raised")
    /\ UNCHANGED <<orch, whole_engine, attempts, response, conversation_turns>>

\* the callback has returned: the result is spoken; a result with an end word
\* ends the conversation, any other resets attempts and the loop goes on
\* (simple 109-117, enhanced 548-556, voice 299-308, mock 434-437).  An
\* exception of the callback leaves the loops that have no try, is turned into
\* an "Error: ..." result by VoiceInterface (316-319), and is logged and
\* dropped for a turn of the agent (247-249), whose results end nothing.
CallbackReturns ==
    /\ conv_pc \in {"in_callback", "in_agent_callback"}
    /\ pc = "done"
    /\ IF conv_pc = "in_agent_callback"
       THEN attempts' = attempts /\ conv_pc' = "agent_turns" /\ depth' = depth
       ELSE IF raised
       THEN /\ attempts' = attempts
            /\ ConversationEnds(IF iface = "voice" THEN "ended" ELSE "raised")
       ELSE IF SignalsCompletion(iface, result)
       THEN attempts' = attempts /\ ConversationEnds("ended")
       ELSE /\ attempts' = IF iface = "mock" THEN attempts ELSE 0
            /\ conv_pc' = "prompt"
            /\ depth' = depth
    /\ UNCHANGED <<orch, whole_engine, response, conversation_turns>>

\* simulate_conversation_with_agent, lines 199-207: the request is answered
\* with 200 and a conversation
AgentSimulationSucceeds(turns) ==
    /\ conv_pc = "simulating"
    /\ Cardinality(CommandTurns(turns)) <= MaxCalls - ncalls
    /\ conversation_turns' = turns
    /\ conv_pc' = "agent_turns"
    /\ UNCHANGED <<orch, whole_engine, attempts, response, depth>>

\* a replay that hands every turn of the user to the callback
ProcessAgentTurn_every_user_turn ==
    /\ conv_pc = "agent_turns"
    /\ IF conversation_turns = <<>>
       THEN /\ ConversationEnds("ended")
            /\ UNCHANGED <<response, conversation_turns>>
       ELSE /\ conversation_turns' = Tail(conversation_turns)
            /\ depth' = depth
            /\ IF Head(conversation_turns).role = "user"
               THEN /\ response' = Some(Lower(Head(conversation_turns).content))
                    /\ conv_pc' = "agent_heard"
               ELSE UNCHANGED <<response, conv_pc>>
    /\ UNCHANGED <<orch, whole_engine, attempts>>

\* _process_agent_conversation, lines 233-252, for one turn; after the last
\* turn the summary is returned (lines 210-214)
ProcessAgentTurn ==
    /\ conv_pc = "agent_turns"
    /\ IF conversation_turns = <<>>
       THEN /\ ConversationEnds("ended")
            /\ UNCHANGED <<response, conversation_turns>>
       ELSE /\ conversation_turns' = Tail(conversation_turns)
            /\ depth' = depth
            /\ IF IsCommandTurn(Head(conversation_turns))
               THEN /\ response' = Some(Lower(Head(conversation_turns).content))
                    /\ conv_pc' = "agent_heard"
               ELSE UNCHANGED <<response, conv_pc>>
    /\ UNCHANGED <<orch, whole_engine, attempts>>

\* simulate_conversation_with_agent, lines 216-222: the request is answered
\* with another status, or raises; start_conversation is called again, and
\* with the agent id still set it calls simulate_conversation_with_agent again
AgentSimulationFails ==
    /\ conv_pc = "simulating"
    /\ depth < MaxDepth
    /\ start_conversation
    /\ UNCHANGED <<orch, whole_engine, conversation_turns>>

\* a caller outside the orchestrator calls start_conversation
DirectStart ==
    /\ sys_pc = "direct"
    /\ conv_pc \in {"none", "ended", "raised"}
    /\ ncalls < MaxCalls
    /\ start_conversation
    /\ UNCHANGED <<orch, whole_engine, conversation_turns>>

InitConversation ==
    /\ InitEngine
    /\ os_environ = [CVE_ID |-> None, TIMESTAMP |-> None, PATH |-> Some(s_usr_bin)]
    /\ running = FALSE
    /\ stop_seen = FALSE
    /\ sys_pc = "direct"
    /\ new_cves = <<>>
    /\ idx = 0
    /\ bound_cve_id = s_cve_55182
    /\ iface \in DirectInterfaces
    /\ conv_pc = "none"
    /\ attempts = 0
    /\ response = None
    /\ depth = 0
    /\ conversation_turns = <<>>
    /\ NoCalls
    /\ NoConfig

NextConversation ==
    \/ DirectStart
    \/ \E spoken \in BOOLEAN : SpeakAlert(spoken)
    \/ \E r \in AllListenResults : Listen(r)
    \/ ListenRaises
    \/ InvokeCallback
    \/ MatchCommand
    \/ ReturnHelp
    \/ BeginExecute
    \/ \E w \in ConversationWorlds : ExecuteCommand(w)
    \/ CallbackReturns
    \/ CallbackRaises
    \/ \E turns \in AgentConversations : AgentSimulationSucceeds(turns)
    \/ ProcessAgentTurn
    \/ AgentSimulationFails

SpecConversation == InitConversation /\ [][NextConversation]_vars


\* --------------------------------------------------- the orchestrator
\* VoiceAlertSystem (voicealert_system.py): start, _main_loop,
\* _process_vulnerability, _monitor_call, stop and the signal handler, around
\* the engine and one of the voice interfaces or callers.

\* the call ids the calling service hands out
CallIds == {"call_1", "call_2"}
\* place_call, lines 51-56: the record of a new call; callback is the
\* command_callback given, None or the lambda of voicealert_system.py line
\* 151 with its cve_id
CallRecord(callback) == [callback |-> callback, status |-> "active", ended |-> FALSE]
\* d[k] = v on the dict of records
WithCall(d, k, v) == [c \in DOMAIN d \cup {k} |-> IF c = k THEN v ELSE d[c]]
\* end_call, lines 108-111: the record of a known call is marked
Ended(d, k) ==
    IF k \in DOMAIN d
    THEN [d EXCEPT ![k].status = "ended", ![k].ended = TRUE]
    ELSE d

\* raw items of a scan: a dict with its id, or an item extract_cve_info
\* cannot read (cve.get raises)
RawCve(id) == [well_formed |-> TRUE, cve_id |-> id]
Malformed == [well_formed |-> FALSE, cve_id |-> s_empty]
\* what fetch_new_cves can return; [] also when the scan itself failed
\* (cve_scanner.py 34-56)
Batches ==
    { <<>>,
      <<RawCve(s_cve_55182), RawCve(s_cve_0002)>>,
      <<Malformed, RawCve(s_cve_0002)>> }

\* the worlds a command of an alert runs in: the script ends with 0 or with
\* 1, or the logs directory cannot be created
AlertWorlds ==
    {w \in Worlds : \/ w.ack = "ok" /\ w.script \in {"exit_0", "exit_1"}
                    \/ w.ack = "makedirs_fault"}

\* the state after VoiceAlertSystem() (lines 20-56): running is False and the
\* signal handlers are installed
InitAlert ==
    /\ InitEngine
    /\ os_environ = [CVE_ID |-> None, TIMESTAMP |-> None, PATH |-> Some(s_usr_bin)]
    /\ running = FALSE
    /\ stop_seen = FALSE
    /\ sys_pc = "constructed"
    /\ new_cves = <<>>
    /\ idx = 0
    /\ bound_cve_id = s_empty
    /\ iface \in MicrophoneInterfaces \cup Callers
    /\ conv_pc = "none"
    /\ attempts = 0
    /\ response = None
    /\ depth = 0
    /\ conversation_turns = <<>>
    /\ NoCalls
    /\ NoConfig

conversation == <<conv_pc, attempts, response, depth, conversation_turns>>

\* start(), lines 71-81: running is set, _main_loop is entered
Start ==
    /\ sys_pc = "constructed"
    /\ running' = TRUE
    /\ sys_pc' = "while_test"
    /\ UNCHANGED <<stop_seen, new_cves, idx, bound_cve_id, iface, configuration, calls, conversation, whole_engine>>

\* _signal_handler (lines 206-209), between any two steps of the main thread
\* once __init__ has installed it: stop()
SignalHandler ==
    /\ sys_pc # "returned"
    /\ running' = FALSE
    /\ stop_seen' = TRUE
    /\ UNCHANGED <<sys_pc, new_cves, idx, bound_cve_id, iface, configuration, calls, conversation, whole_engine>>

\* `while self.running` (line 96); when it fails _main_loop returns and
\* start() runs stop() in its finally (lines 86-87)
WhileTest ==
    /\ sys_pc = "while_test"
    /\ IF running
       THEN sys_pc' = "scanning" /\ running' = running
       ELSE sys_pc' = "returned" /\ running' = FALSE
    /\ UNCHANGED <<stop_seen, new_cves, idx, bound_cve_id, iface, configuration, calls, conversation, whole_engine>>

\* lines 101-106: fetch_new_cves returns the batch
Scan(batch) ==
    /\ sys_pc = "scanning"
    /\ new_cves' = batch
    /\ idx' = 0
    /\ sys_pc' = IF batch = <<>> THEN "sleeping" ELSE "for_test"
    /\ UNCHANGED <<running, stop_seen, bound_cve_id, iface, configuration, calls, conversation, whole_engine>>

\* lines 120-122: an exception reaches the except of the loop body
LoopBodyRaises ==
    /\ sys_pc \in {"scanning", "after_batch"}
    /\ sys_pc' = "retry_wait"
    /\ new_cves' = <<>>
    /\ idx' = 0
    /\ UNCHANGED <<running, stop_seen, bound_cve_id, iface, configuration, calls, conversation, whole_engine>>

\* lines 109-113: the next item, unless running is false; then
\* _process_vulnerability is called
ForTest ==
    /\ sys_pc = "for_test"
    /\ IF idx < Len(new_cves) /\ running
       THEN idx' = idx + 1 /\ sys_pc' = "processing"
       ELSE idx' = idx /\ sys_pc' = "after_batch"
    /\ UNCHANGED <<running, stop_seen, new_cves, bound_cve_id, iface, configuration, calls, conversation,
                   whole_engine>>

\* a _process_vulnerability without its try: a fault reaches the main loop
ProcessVulnerability_no_except(summary_fault) ==
    /\ sys_pc = "processing"
    /\ IF ~new_cves[idx].well_formed \/ summary_fault
       THEN sys_pc' = "retry_wait" /\ bound_cve_id' = bound_cve_id
       ELSE sys_pc' = "alerting" /\ bound_cve_id' = new_cves[idx].cve_id
    /\ UNCHANGED <<running, stop_seen, new_cves, idx, iface, configuration, calls, conversation, whole_engine>>

\* _process_vulnerability, lines 130-151: extract_cve_info, the summary, the
\* voice script, the callback that binds cve_id; a fault of any of them is
\* logged at line 174 and the call returns
ProcessVulnerability(summary_fault) ==
    /\ sys_pc = "processing"
    /\ IF ~new_cves[idx].well_formed \/ summary_fault
       THEN sys_pc' = "for_test" /\ bound_cve_id' = bound_cve_id
       ELSE sys_pc' = "alerting" /\ bound_cve_id' = new_cves[idx].cve_id
    /\ UNCHANGED <<running, stop_seen, new_cves, idx, iface, configuration, calls, conversation, whole_engine>>

\* line 157: the conversation is started on the microphone interface
StartConversation ==
    /\ sys_pc = "alerting"
    /\ iface \in MicrophoneInterfaces
    /\ sys_pc' = "conversing"
    /\ start_conversation
    /\ UNCHANGED <<running, stop_seen, new_cves, idx, bound_cve_id, iface, configuration, calls,
                   conversation_turns, whole_engine>>

\* lines 157-158 and 173-174: start_conversation has returned, or has raised
\* and the exception was logged
ConversationOver ==
    /\ sys_pc = "conversing"
    /\ conv_pc \in {"ended", "raised"}
    /\ sys_pc' = "for_test"
    /\ conv_pc' = "none"
    /\ attempts' = 0
    /\ response' = None
    /\ bound_cve_id' = s_empty
    /\ UNCHANGED <<running, stop_seen, new_cves, idx, iface, configuration, calls, depth, conversation_turns,
                   whole_engine>>

\* lines 161-165 with MockVoiceCaller.place_call (voice_caller.py 165-178):
\* the callback is called with 'start patching'
PlaceMockCall ==
    /\ sys_pc = "alerting"
    /\ iface = "mock_caller"
    /\ process_voice_command(s_mock_start_patching, Some(bound_cve_id))
    /\ sys_pc' = "placing"
    /\ UNCHANGED <<running, stop_seen, new_cves, idx, bound_cve_id, iface, configuration, calls, conversation>>

\* lines 161-171 with VoiceCaller.place_call (voice_caller.py 36-66): the call
\* is created and the callback kept with it, or no call id is returned; with
\* the mock, the callback has returned and the call id is returned
CallPlaced(placed, id) ==
    /\ \/ sys_pc = "alerting" /\ iface = "caller"
       \/ sys_pc = "placing" /\ pc = "done" /\ placed
    /\ sys_pc' = IF placed THEN "monitoring" ELSE "for_test"
    /\ bound_cve_id' = IF placed THEN bound_cve_id ELSE s_empty
    /\ call_id' = IF placed THEN id ELSE ""
    /\ call_result' = [method |-> "place_call", value |-> IF placed THEN s_call_id ELSE s_None]
    /\ active_calls' = IF placed /\ iface = "caller"
                       THEN WithCall(active_calls, id, CallRecord(Some(bound_cve_id)))
                       ELSE active_calls
    /\ UNCHANGED <<running, stop_seen, new_cves, idx, iface, configuration, conversation, whole_engine>>

\* _monitor_call, lines 190-204: the loop is left when running is false or
\* when the timeout has passed; then the call is ended by end_call
MonitorCall(timed_out) ==
    /\ sys_pc = "monitoring"
    /\ ~running \/ timed_out
    /\ sys_pc' = "for_test"
    /\ bound_cve_id' = s_empty
    /\ active_calls' = Ended(active_calls, call_id)
    /\ call_result' = [method |-> "end_call", value |-> s_True]
    /\ UNCHANGED <<running, stop_seen, new_cves, idx, iface, configuration, call_id, conversation,
                   whole_engine>>

\* lines 116-118: the batch is done; the wait before the next scan is skipped
\* when running is false
AfterBatch ==
    /\ sys_pc = "after_batch"
    /\ sys_pc' = IF running THEN "sleeping" ELSE "while_test"
    /\ new_cves' = <<>>
    /\ idx' = 0
    /\ UNCHANGED <<running, stop_seen, bound_cve_id, iface, configuration, calls, conversation, whole_engine>>

\* time.sleep at line 105, 118 or 122 is over
Sleep ==
    /\ sys_pc \in {"sleeping", "retry_wait"}
    /\ sys_pc' = "while_test"
    /\ UNCHANGED <<running, stop_seen, new_cves, idx, bound_cve_id, iface, configuration, calls, conversation,
                   whole_engine>>

NextAlert ==
    \/ Start
    \/ SignalHandler
    \/ WhileTest
    \/ \E batch \in Batches : Scan(batch)
    \/ LoopBodyRaises
    \/ ForTest
    \/ \E summary_fault \in BOOLEAN : ProcessVulnerability(summary_fault)
    \/ StartConversation
    \/ \E r \in AllListenResults : Listen(r)
    \/ ListenRaises
    \/ InvokeCallback
    \/ MatchCommand
    \/ ReturnHelp
    \/ BeginExecute
    \/ \E w \in AlertWorlds : ExecuteCommand(w)
    \/ CallbackReturns
    \/ ConversationOver
    \/ PlaceMockCall
    \/ \E placed \in BOOLEAN, id \in CallIds : CallPlaced(placed, id)
    \/ \E timed_out \in BOOLEAN : MonitorCall(timed_out)
    \/ AfterBatch
    \/ Sleep

SpecAlert == InitAlert /\ [][NextAlert]_vars

\* ------------------------------------------------- the phone caller
\* VoiceCaller (voice_caller.py) on its own, as the service that receives the
\* transcribed answers of a call drives it: place_call, handle_voice_response,
\* end_call and cleanup_old_calls, the callback being process_voice_command
\* with the cve_id it was bound to.
Transcriptions == {s_mock_start_patching, s_ACK_ws, s_xyzzy}
Callbacks == {None, Some(s_cve_55182)}
\* how self.client.call.end ends: it returns, it is no attribute of the
\* client (AttributeError, line 116), or it raises another exception
EndOutcomes == {"ended", "no_method", "fault"}
\* no method of the caller is in progress
CallerAtRest == sys_pc = "webhook" /\ conv_pc \in {"none", "returned"} /\ AtRest

\* place_call, lines 36-66: the service returns a call id and the record is
\* stored with the callback, or it returns none or raises and None is returned
PlaceCall(placed, id, callback) ==
    /\ CallerAtRest
    /\ call_id' = IF placed THEN id ELSE ""
    /\ call_result' = [method |-> "place_call", value |-> IF placed THEN s_call_id ELSE s_None]
    /\ active_calls' = IF placed THEN WithCall(active_calls, id, CallRecord(callback))
                       ELSE active_calls
    /\ conv_pc' = "returned"
    /\ UNCHANGED <<running, stop_seen, sys_pc, new_cves, idx, bound_cve_id, iface, configuration, loop,
                   whole_engine>>

\* handle_voice_response, lines 78-96, up to the call of the callback: the
\* apology for a call id that is no key of active_calls, the notice for a
\* record without callback, else callback(transcribed_text.lower().strip())
HandleVoiceResponse(id, text) ==
    /\ CallerAtRest
    /\ call_id' = id
    /\ IF id \notin DOMAIN active_calls
       THEN /\ call_result' = [method |-> "handle_voice_response",
                               value |-> s_sorry_unknown_call]
            /\ conv_pc' = "returned"
            /\ UNCHANGED whole_engine
       ELSE IF active_calls[id].callback.isNone
       THEN /\ call_result' = [method |-> "handle_voice_response", value |-> s_no_handler]
            /\ conv_pc' = "returned"
            /\ UNCHANGED whole_engine
       ELSE /\ process_voice_command(Strip(Lower(text)), active_calls[id].callback)
            /\ call_result' = [method |-> "handle_voice_response", value |-> <<>>]
            /\ conv_pc' = "in_handler"
    /\ UNCHANGED <<running, stop_seen, sys_pc, new_cves, idx, bound_cve_id, iface, configuration, loop,
                   active_calls>>

\* handle_voice_response, lines 88-94: the callback has returned and its
\* response is returned, or it raised and the error text is returned
HandlerReturns ==
    /\ sys_pc = "webhook"
    /\ conv_pc = "in_handler"
    /\ pc = "done"
    /\ call_result' = [method |-> "handle_voice_response",
                       value |-> IF raised THEN s_sorry_error ELSE result]
    /\ conv_pc' = "returned"
    /\ UNCHANGED <<running, stop_seen, sys_pc, new_cves, idx, bound_cve_id, iface, configuration, loop,
                   active_calls, call_id, whole_engine>>

\* end_call, lines 98-128: a known call is marked ended and True is returned,
\* unless ending it at the service raised; an unknown one returns False
EndCall(id, how) ==
    /\ CallerAtRest
    /\ call_id' = id
    /\ active_calls' = Ended(active_calls, id)
    /\ call_result' = [method |-> "end_call",
                       value |-> IF id \in DOMAIN active_calls /\ how # "fault"
                                 THEN s_True ELSE s_False]
    /\ conv_pc' = "returned"
    /\ UNCHANGED <<running, stop_seen, sys_pc, new_cves, idx, bound_cve_id, iface, configuration, loop,
                   whole_engine>>

\* cleanup_old_calls, lines 141-155: the records older than max_age_seconds
\* are deleted
CleanupOldCalls(old) ==
    /\ CallerAtRest
    /\ old \subseteq DOMAIN active_calls
    /\ old # {}
    /\ active_calls' = [c \in DOMAIN active_calls \ old |-> active_calls[c]]
    /\ call_id' = ""
    /\ call_result' = [method |-> "cleanup_old_calls", value |-> <<>>]
    /\ conv_pc' = "returned"
    /\ UNCHANGED <<running, stop_seen, sys_pc, new_cves, idx, bound_cve_id, iface, configuration, loop,
                   whole_engine>>

\* the state after VoiceCaller(): no record
InitVoiceCaller ==
    /\ InitEngine
    /\ os_environ = [CVE_ID |-> None, TIMESTAMP |-> None, PATH |-> Some(s_usr_bin)]
    /\ running = FALSE
    /\ stop_seen = FALSE
    /\ sys_pc = "webhook"
    /\ new_cves = <<>>
    /\ idx = 0
    /\ bound_cve_id = s_empty
    /\ iface = "caller"
    /\ conv_pc = "none"
    /\ attempts = 0
    /\ response = None
    /\ depth = 0
    /\ conversation_turns = <<>>
    /\ NoCalls
    /\ NoConfig

NextVoiceCaller ==
    \/ \E placed \in BOOLEAN, id \in CallIds, callback \in Callbacks :
          PlaceCall(placed, id, callback)
    \/ \E id \in CallIds, text \in Transcriptions : HandleVoiceResponse(id, text)
    \/ HandlerReturns
    \/ \E id \in CallIds, how \in EndOutcomes : EndCall(id, how)
    \/ \E old \in SUBSET CallIds : CleanupOldCalls(old)
    \/ MatchCommand
    \/ ReturnHelp
    \/ BeginExecute
    \/ \E w \in AlertWorlds : ExecuteCommand(w)

SpecVoiceCaller == InitVoiceCaller /\ [][NextVoiceCaller]_vars

\* ------------------------------------------------- the configuration
\* VoiceAlertConfig (config.py): the dict _load_config builds from the
\* environment, get and get_all, and a caller that writes to the dict
\* get_all returned.
ConfigKeys == {"openai_api_key", "elevenlabs_api_key", "engineer_phone", "log_level"}
\* os.getenv of an API key: unset, empty, a key, or a text equal to the mask
KeyValues == {None, Some(s_empty), Some(s_key_a), Some(s_key_b), Some(s_masked)}
\* _load_config (lines 15-50), for the keys above
Configs ==
    { [openai_api_key |-> o, elevenlabs_api_key |-> e, engineer_phone |-> p,
       log_level |-> Some(s_INFO)]
      : o \in KeyValues, e \in KeyValues, p \in {None, Some(s_phone)} }

\* a get_all that masks the first of the sensitive keys only
get_all_first_key_only(cfg) ==
    [k \in DOMAIN cfg |->
        IF k = "openai_api_key" /\ Truthy(cfg[k]) THEN Some(s_masked) ELSE cfg[k]]

\* get_all (lines 72-82): a copy of the dict in which the sensitive keys with
\* a truthy value hold the mask
get_all(cfg) ==
    [k \in DOMAIN cfg |->
        IF k \in {"openai_api_key", "elevenlabs_api_key"} /\ Truthy(cfg[k])
        THEN Some(s_masked)
        ELSE cfg[k]]

rest_of_system == <<running, stop_seen, sys_pc, new_cves, idx, bound_cve_id, iface, conv_pc,
                    loop, calls>>

\* get_all is called
GetAll ==
    /\ sys_pc = "config"
    /\ config_result' = [method |-> "get_all", key |-> "", value |-> get_all(_config),
                         masked |-> TRUE]
    /\ UNCHANGED <<_config, rest_of_system, whole_engine>>

\* get(key) (lines 68-70), with the default None
GetKey(key) ==
    /\ sys_pc = "config"
    /\ config_result' = [method |-> "get", key |-> key,
                         value |-> IF key \in DOMAIN _config THEN _config[key] ELSE None,
                         masked |-> config_result.masked]
    /\ UNCHANGED <<_config, rest_of_system, whole_engine>>

\* the caller of get_all assigns to a key of the dict it got
CallerEditsCopy(key, v) ==
    /\ sys_pc = "config"
    /\ config_result.method \in {"get_all", "edited"}
    /\ config_result' = [config_result EXCEPT !.method = "edited", !.key = key,
                                              !.value = [@ EXCEPT ![key] = v]]
    /\ UNCHANGED <<_config, rest_of_system, whole_engine>>

\* the state after VoiceAlertConfig() (lines 10-13)
InitConfig ==
    /\ InitEngine
    /\ os_environ = [CVE_ID |-> None, TIMESTAMP |-> None, PATH |-> Some(s_usr_bin)]
    /\ running = FALSE
    /\ stop_seen = FALSE
    /\ sys_pc = "config"
    /\ new_cves = <<>>
    /\ idx = 0
    /\ bound_cve_id = s_empty
    /\ iface = "none"
    /\ conv_pc = "none"
    /\ attempts = 0
    /\ response = None
    /\ depth = 0
    /\ conversation_turns = <<>>
    /\ NoCalls
    /\ _config \in Configs
    /\ config_result = [method |-> "none", key |-> "", value |-> <<>>, masked |-> FALSE]

NextConfig ==
    \/ GetAll
    \/ \E key \in ConfigKeys \cup {"webhook_secret"} : GetKey(key)
    \/ \E key \in {"openai_api_key", "log_level"}, v \in {None, Some(s_key_b)} :
          CallerEditsCopy(key, v)

SpecConfig == InitConfig /\ [][NextConfig]_vars

\* ================================================================ claims
\* the text holds the i-th trigger of the registry
HoldsTrigger(i) == Contains(command_whitelist[i].trigger, command_text)
\* the text holds the j-th keyword of the fuzzy table
HoldsKeyword(j) == Contains(fuzzy_matches[j].keyword, command_text)
NoTriggerInText == \A i \in 1..Len(command_whitelist) : ~HoldsTrigger(i)
NoKeywordInText == \A j \in 1..Len(fuzzy_matches) : ~HoldsKeyword(j)
\* the call of the current state has resolved its input
Resolved == pc = "done"

\* C1, as claimed: every registered trigger that is a substring of the
\* normalized input is the one the input resolves to.
C1_AnyContainedTrigger ==
    Resolved =>
        \A i \in 1..Len(command_whitelist) :
            HoldsTrigger(i) => matched_command = <<command_whitelist[i]>>

\* C1, amended: a registered trigger that is a substring of the normalized
\* input, with no trigger registered before it in the input, is the one the
\* input resolves to, whatever fuzzy keywords the input holds as well.
C1_FirstContainedTrigger ==
    Resolved =>
        \A i \in 1..Len(command_whitelist) :
            (HoldsTrigger(i) /\ \A k \in 1..(i - 1) : ~HoldsTrigger(k))
            => (~raised /\ matched_command = <<command_whitelist[i]>>)

\* C1: an input that holds a custom trigger and a fuzzy keyword of another
\* trigger has resolved to the custom trigger's entry.
C1_Witness ==
    /\ Resolved
    /\ \E i \in 1..Len(command_whitelist), j \in 1..Len(fuzzy_matches) :
          /\ i > Len(DefaultWhitelist)
          /\ HoldsTrigger(i)
          /\ HoldsKeyword(j)
          /\ fuzzy_matches[j].trigger # command_whitelist[i].trigger
          /\ matched_command = <<command_whitelist[i]>>

\* C2, as claimed: with no registered trigger in the input, every fuzzy
\* keyword that is a substring of the input decides the resolved entry.
C2_AnyContainedKeyword ==
    (Resolved /\ NoTriggerInText) =>
        \A j \in 1..Len(fuzzy_matches) :
            HoldsKeyword(j)
            => matched_command = <<Item(command_whitelist, fuzzy_matches[j].trigger)>>

\* C2, amended: with no registered trigger in the input, a keyword of the
\* fuzzy table that is a substring of the input decides the resolved entry
\* when no keyword before it in the table, mapped to another trigger, is in
\* the input as well: the entry is the one now registered under the keyword's
\* trigger.
C2_FirstContainedKeyword ==
    (Resolved /\ NoTriggerInText) =>
        \A j \in 1..Len(fuzzy_matches) :
            (/\ HoldsKeyword(j)
             /\ \A k \in 1..(j - 1) :
                   HoldsKeyword(k) => fuzzy_matches[k].trigger = fuzzy_matches[j].trigger)
            => /\ ~raised
               /\ Len(matched_command) = 1
               /\ matched_command[1].trigger = fuzzy_matches[j].trigger
               /\ matched_command[1] \in {command_whitelist[i] : i \in 1..Len(command_whitelist)}

\* C2: an input with no trigger and two keywords of different triggers has
\* resolved to the trigger of the one that is first in the table.
C2_Witness ==
    /\ Resolved
    /\ NoTriggerInText
    /\ \E j, k \in 1..Len(fuzzy_matches) :
          /\ j < k
          /\ HoldsKeyword(j)
          /\ HoldsKeyword(k)
          /\ fuzzy_matches[j].trigger # fuzzy_matches[k].trigger
          /\ \A l \in 1..(j - 1) : ~HoldsKeyword(l)
          /\ matched_command # <<>>
          /\ matched_command[1].trigger = fuzzy_matches[j].trigger

\* the response names the trigger, between quotes
ListsTrigger(message, trigger) == Contains(<<"'">> \o trigger \o <<"'">>, message)

\* C3: a call whose input holds no registered trigger and no fuzzy keyword
\* has returned the help response, which lists every trigger of the registry;
\* the call made no os, subprocess or file call and the acknowledgment log is
\* as it was when the call began.
C3_UnmatchedGetsHelp ==
    (pc = "done" /\ NoTriggerInText /\ NoKeywordInText) =>
        /\ ~raised
        /\ outcome = "help"
        /\ Contains(s_unknown_command, result)
        /\ \A i \in 1..Len(command_whitelist) :
              ListsTrigger(result, command_whitelist[i].trigger)
        /\ effects = <<>>
        /\ child_env = <<>>
        /\ ack_log = ack_log_before

\* C3: a help response was returned by an engine with a custom trigger, after
\* an earlier call.
C3_Witness ==
    /\ pc = "done"
    /\ outcome = "help"
    /\ ncalls > 1
    /\ Len(command_whitelist) > Len(DefaultWhitelist)
    /\ NoTriggerInText
    /\ NoKeywordInText

\* C4: no fault leaves process_voice_command for its caller, and a finished
\* call has returned a string, whatever the file system and the child did.
C4_NoFaultPropagates ==
    /\ ~raised
    /\ pc = "done" => (Len(result) > 0 /\ outcome # "raised" /\ outcome # "none")

\* C4: a call has returned although creating the log directory faulted.
C4_Witness ==
    /\ pc = "done"
    /\ ncalls > 1
    /\ outcome = "execute_error"
    /\ Contains(s_failed_to_execute, result)

\* the results of a matched command the lifecycle of the spec names; an
\* acknowledgment counts as succeeded
FourTerminalStates == {"succeeded", "acknowledged", "failed", "timed_out", "config_error"}
\* the results of a matched command in the code
MatchedResults ==
    FourTerminalStates \cup {"script_error", "execute_error", "no_action"}

\* C5, as claimed: a matched command ends in succeeded, failed, timed_out or
\* config_error.
C5_FourTerminalStates ==
    (pc = "done" /\ matched_command # <<>>) => outcome \in FourTerminalStates

\* C5, amended: received is followed by matched or unmatched; unmatched by the
\* help result, never by executing; matched by executing; executing by one
\* result among succeeded, failed, timed_out, config_error, error (a fault
\* while spawning the child or inside the handler) and no-action; executing is
\* entered from matched only; the result of a call stays until the next call.
C5_Lifecycle ==
    [][ /\ (pc = "received" => pc' \in {"matched", "unmatched"})
        /\ (pc = "unmatched" => (pc' = "done" /\ outcome' = "help"))
        /\ (pc = "matched" => pc' = "executing")
        /\ (pc = "executing" => (pc' = "done" /\ outcome' \in MatchedResults))
        /\ (pc' = "executing" => pc = "matched")
        /\ (pc \notin {"received", "matched", "unmatched", "executing"}
              => (outcome' = outcome \/ (pc' = "received" /\ outcome' = "none")))
      ]_vars

\* C5: a matched command has ended with the error result of a fault while
\* spawning the child.
C5_Witness ==
    /\ pc = "done"
    /\ matched_command # <<>>
    /\ outcome = "script_error"
    /\ Contains(s_error_executing, result)

\* the entry of the current call
CurrentEntry == heap[command_history[Len(command_history)]]
InCall == pc \in {"received", "matched", "unmatched", "executing"}

\* C6: there is one history entry per call started, the k-th entry being the
\* object the k-th call created; the entry of a call is in the history, with
\* the call's text and correlation id, from before matching until the call has
\* returned; get_command_history gives the entries in that order.
C6_OneEntryPerCall ==
    /\ Len(command_history) = ncalls
    /\ Len(heap) = ncalls
    /\ \A k \in 1..ncalls : command_history[k] = k
    /\ (InCall \/ pc = "done") =>
          /\ ncalls > 0
          /\ CurrentEntry.command = command_text
          /\ CurrentEntry.cve_id = cve_id
    /\ returned.held => returned.list = command_history

\* C6: the second call is running its handler after an unmatched first call,
\* and both entries are in the history.
C6_Witness ==
    /\ pc = "executing"
    /\ ncalls = 2
    /\ Len(command_history) = 2
    /\ heap[command_history[1]].command # heap[command_history[2]].command
    /\ ~Contains(s_ack, heap[command_history[1]].command)
    /\ ~Contains(s_patch, heap[command_history[1]].command)

\* C7: every entry of the history stays in the history, at its position and
\* with its field values, whatever the caller does with the value
\* get_command_history returned.
C7_EntriesImmutable ==
    [][ \A k \in 1..Len(command_history) :
           /\ k <= Len(command_history')
           /\ command_history'[k] = command_history[k]
           /\ heap'[command_history'[k]] = heap[command_history[k]]
      ]_vars

C9_SuccessNamesDescription ==
    pc = "done" =>
        /\ (outcome = "succeeded"
              => result = matched_command[1].description \o s_completed_successfully)
        /\ (outcome = "failed"
              => (~Contains(s_stderr, result) /\ ~Contains(s_stdout, result)))

\* the calls a script handler makes
ScriptOps ==
    {"exists", "exists_false", "access", "access_false", "spawn", "spawn_fault", "kill",
     "output_fault", "exit_0", "exit_nonzero"}
EffectOps == {effects[i].op : i \in 1..Len(effects)}
ResolvedToAcknowledge ==
    /\ pc = "done"
    /\ matched_command # <<>>
    /\ matched_command[1].trigger = s_acknowledge_incident

\* C10, as claimed: a command that resolves to "acknowledge incident" makes no
\* script check and spawns no child, appends exactly one line to the
\* acknowledgment log and returns the fixed message.
C10_AlwaysOneLine ==
    ResolvedToAcknowledge =>
        /\ EffectOps \cap ScriptOps = {}
        /\ Len(ack_log) = Len(ack_log_before) + 1
        /\ SubSeq(ack_log, 1, Len(ack_log_before)) = ack_log_before
        /\ result = s_acknowledged_and_logged

\* C10, amended: a command that resolves to "acknowledge incident" makes no
\* script check and spawns no child, whatever script the entry names.  When
\* creating the log directory and writing the log do not fault, it appends
\* exactly one line and returns the fixed message; when the write faults, it
\* appends no line and still returns the fixed message; when creating the
\* directory faults, it appends no line and returns the failure message.
C10_OneLineUnlessFault ==
    ResolvedToAcknowledge =>
        /\ EffectOps \cap ScriptOps = {}
        /\ child_env = <<>>
        /\ ~raised
        /\ IF "makedirs_fault" \in EffectOps
           THEN /\ ack_log = ack_log_before
                /\ result = s_failed_to_execute \o s_acknowledge_incident
                            \o s_dot_error \o s_permission_denied_logs
           ELSE IF "write_fault" \in EffectOps
           THEN /\ ack_log = ack_log_before
                /\ result = s_acknowledged_and_logged
           ELSE /\ Len(ack_log) = Len(ack_log_before) + 1
                /\ SubSeq(ack_log, 1, Len(ack_log_before)) = ack_log_before
                /\ result = s_acknowledged_and_logged
                /\ Len(effects) = 2
                /\ effects[1].op = "makedirs"
                /\ effects[2].op = "write"

\* C10: the fuzzy keyword "ack" has resolved to an "acknowledge incident"
\* entry that names a script, and one line was appended.
C10_Witness ==
    /\ ResolvedToAcknowledge
    /\ ~Contains(s_acknowledge_incident, command_text)
    /\ Truthy(matched_command[1].script)
    /\ "write" \in EffectOps
    /\ Len(ack_log) = Len(ack_log_before) + 1

\* the calls the built-in acknowledgment handler makes
AckOps == {"makedirs", "makedirs_fault", "write", "write_fault"}
\* a finished call that resolved to an entry
MatchedDone == pc = "done" /\ matched_command # <<>>

\* C11: the handler is chosen by the entry's script path.  A finished call
\* that resolved to an entry with a script path has checked that path first
\* and has not run the built-in handler; one that resolved to an entry with no
\* script path has run the built-in handler and has made no script call.
C11_HandlerByScriptPath ==
    MatchedDone =>
        IF Truthy(matched_command[1].script)
        THEN /\ effects # <<>>
             /\ effects[1].op \in {"exists", "exists_false"}
             /\ effects[1].path = matched_command[1].script.val
             /\ EffectOps \cap AckOps = {}
        ELSE /\ EffectOps \cap AckOps # {}
             /\ EffectOps \cap ScriptOps = {}

\* the script path of the entry a call resolved to
ScriptPath == matched_command[1].script.val
\* the finished call was handled by _execute_script
ScriptDone == MatchedDone /\ EffectOps \cap ScriptOps # {}

\* C12: a call whose script path does not exist has made the existence check
\* only, and returns the not-found message; a call whose script path exists
\* but is not executable has made the existence check, then the permission
\* check, and returns the not-executable message; neither started a child nor
\* built an environment for one, and no fault left the call.  The step that
\* ends in a configuration error leaves the registry, the history, the
\* acknowledgment log and os.environ as they were, and the next call is
\* received as any other: normalized and logged.
C12_ConfigErrorNoSpawn ==
    /\ [](ScriptDone =>
            /\ ("exists_false" \in EffectOps =>
                  /\ effects = <<Effect("exists_false", ScriptPath)>>
                  /\ result = s_script_ \o ScriptPath \o s_not_found)
            /\ ("access_false" \in EffectOps =>
                  /\ effects = <<Effect("exists", ScriptPath),
                                 Effect("access_false", ScriptPath)>>
                  /\ result = s_script_ \o ScriptPath \o s_is_not_executable)
            /\ (EffectOps \cap {"exists_false", "access_false"} # {} =>
                  /\ outcome = "config_error"
                  /\ ~raised
                  /\ child_env = <<>>)
            /\ (outcome = "config_error" =>
                  EffectOps \cap {"exists_false", "access_false"} # {}))
    /\ [][ /\ (pc = "executing" /\ outcome' = "config_error") =>
                (/\ pc' = "done"
                 /\ UNCHANGED <<command_whitelist, heap, command_history, ack_log,
                                logs_dir, os_environ, clock>>)
           /\ (pc = "done" /\ outcome = "config_error" /\ ncalls' # ncalls) =>
                (/\ pc' = "received"
                 /\ command_text' = Strip(Lower(raw_text'))
                 /\ Len(command_history') = Len(command_history) + 1
                 /\ heap'[command_history'[Len(command_history')]].command = command_text'
                 /\ command_whitelist' = command_whitelist)
         ]_vars

\* C12: the second call has ended with the not-executable message after a
\* first call; the existence check came before the permission check.
C12_Witness ==
    /\ ScriptDone
    /\ ncalls = 2
    /\ outcome = "config_error"
    /\ Len(effects) = 2
    /\ effects[1].op = "exists"
    /\ effects[2].op = "access_false"
    /\ Contains(s_is_not_executable, result)

\* the ways a started or attempted child ends
ChildEndings == {"kill", "exit_0", "exit_nonzero", "spawn_fault", "output_fault"}
\* the trigger of the entry a call resolved to
Trigger == matched_command[1].trigger
\* the last call the finished call made
LastEffect == effects[Len(effects)]

\* C13: a call that passed both path checks ended in exactly one way.  A child
\* that ran into the timeout was killed and the call returns the timeout
\* message, not the success or the failure message; exit code 0 gives the
\* success message, a non-zero exit code the failure message, and a fault
\* while starting the child or reading its output the error message with the
\* fault's text; no fault leaves the call.
C13_ExclusiveOutcomes ==
    (ScriptDone /\ "access" \in EffectOps) =>
        /\ ~raised
        /\ Cardinality(EffectOps \cap ChildEndings) = 1
        /\ LastEffect.op \in ChildEndings
        /\ (LastEffect.op = "kill" =>
              /\ outcome = "timed_out"
              /\ result = Trigger \o s_timed_out
              /\ effects[Len(effects) - 1] = Effect("spawn", ScriptPath)
              /\ ~Contains(s_completed_successfully, result)
              /\ ~Contains(s_failed_check_logs, result))
        /\ (LastEffect.op = "exit_0" =>
              /\ outcome = "succeeded"
              /\ result = Trigger \o s_completed_successfully)
        /\ (LastEffect.op = "exit_nonzero" =>
              /\ outcome = "failed"
              /\ result = Trigger \o s_failed_check_logs)
        /\ (LastEffect.op = "spawn_fault" =>
              /\ outcome = "script_error"
              /\ "spawn" \notin EffectOps
              /\ result = s_error_executing \o Trigger \o s_colon_space
                          \o s_exec_format_error)
        /\ (LastEffect.op = "output_fault" =>
              /\ outcome = "script_error"
              /\ effects[Len(effects) - 1] = Effect("spawn", ScriptPath)
              /\ result = s_error_executing \o Trigger \o s_colon_space
                          \o s_cannot_decode)

\* C13: a child ran into the timeout and was killed; the call has returned
\* the timeout message.
C13_Witness ==
    /\ ScriptDone
    /\ outcome = "timed_out"
    /\ Len(effects) = 4
    /\ effects[3].op = "spawn"
    /\ effects[4].op = "kill"
    /\ result = Trigger \o s_timed_out

\* the children the current call has started
Spawned(eff) == {i \in 1..Len(eff) : eff[i].op = "spawn"}

\* C14: a call starts at most one child.  A child is started only by the step
\* that runs the handler of a matched command, and it is the script of the
\* entry that call resolved to.  Once a call has ended as failed, timed out or
\* configuration error, nothing more is started for it: the next script call
\* belongs to the next process_voice_command call, which starts with no calls
\* made.
C14_NoAutomaticRetry ==
    /\ [](Cardinality(Spawned(effects)) <= 1)
    /\ [][ /\ (Spawned(effects') # {} /\ effects' # effects) =>
                (/\ pc = "executing"
                 /\ pc' = "done"
                 /\ matched_command' = matched_command
                 /\ Truthy(matched_command[1].script)
                 /\ \A i \in Spawned(effects') :
                       effects'[i].path = matched_command[1].script.val)
           /\ (pc = "done" /\ outcome \in {"failed", "timed_out", "config_error"}) =>
                (\/ effects' = effects
                 \/ (pc' = "received" /\ ncalls' = ncalls + 1 /\ effects' = <<>>))
         ]_vars

\* C14: the same command was given twice; the second call has started the
\* script once and it failed.
C14_Witness ==
    /\ ScriptDone
    /\ ncalls = 2
    /\ heap[command_history[1]].command = heap[command_history[2]].command
    /\ outcome = "failed"
    /\ Cardinality(Spawned(effects)) = 1

\* the env argument of the current call's subprocess.run
ChildEnv == child_env[1]
\* subprocess.run was called
RunCalled == EffectOps \cap {"spawn", "spawn_fault"} # {}

\* C15, as claimed: every call of subprocess.run is given an environment that
\* holds the inherited variables, a TIMESTAMP, and a CVE_ID that is the
\* correlation id of the call.
C15_AlwaysBothVariables ==
    RunCalled =>
        /\ child_env # <<>>
        /\ ChildEnv.PATH = os_environ.PATH
        /\ ~ChildEnv.TIMESTAMP.isNone
        /\ ~ChildEnv.CVE_ID.isNone
        /\ ChildEnv.CVE_ID = cve_id

\* C15, amended: every call of subprocess.run is given an environment that
\* holds the inherited variables and a TIMESTAMP read from the clock during
\* the call.  With a correlation id that is not empty, CVE_ID is that id; with
\* none or an empty one, CVE_ID is not written: it is the parent's CVE_ID when
\* the parent has one, and is not set otherwise.
C15_CveIdWhenGiven ==
    RunCalled =>
        /\ child_env # <<>>
        /\ ChildEnv.PATH = os_environ.PATH
        /\ \E t \in 0..(clock - 1) : ChildEnv.TIMESTAMP = Some(Isoformat(t))
        /\ IF ~cve_id.isNone /\ cve_id.val # <<>>
           THEN ChildEnv.CVE_ID = cve_id
           ELSE ChildEnv.CVE_ID = os_environ.CVE_ID

\* C15: in a process that has a CVE_ID of its own, a script was started for a
\* call with correlation id CVE-2025-55182 and runs with that id.
C15_Witness ==
    /\ "spawn" \in EffectOps
    /\ os_environ.CVE_ID = Some(s_cve_stale)
    /\ cve_id = Some(s_cve_55182)
    /\ ChildEnv.CVE_ID = Some(s_cve_55182)
    /\ ~ChildEnv.TIMESTAMP.isNone

\* C16: no step changes os.environ: the variables written for the child,
\* CVE_ID and TIMESTAMP, are written to a copy, and every variable of the
\* parent keeps the value it had when the engine started.
C16_ParentEnvironUnchanged ==
    /\ [](os_environ \in Environs)
    /\ [][os_environ' = os_environ]_vars

\* C16: the second call has started a script with a CVE_ID and a TIMESTAMP of
\* its own, in a process that has neither variable.
C16_Witness ==
    /\ "spawn" \in EffectOps
    /\ ncalls = 2
    /\ ChildEnv.CVE_ID = Some(s_cve_55182)
    /\ ~ChildEnv.TIMESTAMP.isNone
    /\ os_environ.CVE_ID = None
    /\ os_environ.TIMESTAMP = None

\* C17: add_custom_command has no parameter that asks for an overwrite, so no
\* registration is an explicit overwrite: every entry of the registry stays as
\* it is, at its position, whatever trigger is registered next.
C17_ExistingEntryKept ==
    [][ \A i \in 1..Len(command_whitelist) :
           /\ i <= Len(command_whitelist')
           /\ command_whitelist'[i] = command_whitelist[i]
      ]_vars

\* the entry add_custom_command creates for the arguments c
CustomEntry(c) ==
    [trigger |-> Lower(c[1]), script |-> c[2],
     description |-> c[3], requires_confirmation |-> TRUE]
\* the i-th entry of the registry is the default one
IsDefaultEntry(i) == i <= Len(DefaultWhitelist) /\ command_whitelist[i] = DefaultWhitelist[i]
UpperCase == {UpperChars[k] : k \in 1..Len(UpperChars)}
HasUpper(s) == \E i \in 1..Len(s) : s[i] \in UpperCase
\* the entries add_custom_command can have created
CustomEntries == {CustomEntry(c) : c \in MatchCustomCommands}

\* the positions of the registry keys that are substrings of the text
KeysHeldBy(text) ==
    {i \in 1..Len(command_whitelist) : Contains(command_whitelist[i].trigger, text)}

\* C18: every key of the registry is lower-case and no two entries have the
\* same key; every entry is a default entry or holds, with
\* requires_confirmation = true, the script path and the description of an
\* add_custom_command call; and an input, in whatever case, whose lower-cased
\* text holds the key of such an entry and no key registered before it,
\* resolves to that entry.
C18_KeysLowerCaseUnique ==
    /\ \A i \in 1..Len(command_whitelist) : ~HasUpper(command_whitelist[i].trigger)
    /\ \A i, j \in 1..Len(command_whitelist) :
          command_whitelist[i].trigger = command_whitelist[j].trigger => i = j
    /\ \A i \in 1..Len(command_whitelist) :
          \/ IsDefaultEntry(i)
          \/ command_whitelist[i] \in CustomEntries
    /\ Resolved =>
          LET held == KeysHeldBy(Lower(raw_text))
          IN  \A i \in held :
                  (~IsDefaultEntry(i) /\ \A k \in held : i <= k)
                  => matched_command = <<command_whitelist[i]>>

\* C18: a trigger registered as "Deploy Fix" is in the registry under
\* "deploy fix"; an input that holds "Deploy Fix" has resolved to its entry.
C18_Witness ==
    /\ Resolved
    /\ Contains(s_Deploy_Fix, raw_text)
    /\ ~Contains(s_deploy_fix, raw_text)
    /\ matched_command =
          <<[trigger |-> s_deploy_fix, script |-> Some(s_scripts_deploy),
             description |-> s_desc_deploy, requires_confirmation |-> TRUE]>>

\* the registered triggers the normalized input holds, by position
TriggersInText == {i \in 1..Len(command_whitelist) : HoldsTrigger(i)}

\* C19: a key of the registry never changes its position, whatever is
\* registered or re-registered, so the default triggers stay first, in their
\* order.  An input that holds several registered triggers resolves to the
\* entry at the lowest position among them.  "start patching database" is
\* never the resolved trigger: an input that holds it resolves to the entry
\* of "start patching".
C19_FirstRegisteredWins ==
    /\ [](/\ Len(command_whitelist) >= Len(DefaultWhitelist)
          /\ \A i \in 1..Len(DefaultWhitelist) :
                command_whitelist[i].trigger = DefaultWhitelist[i].trigger)
    /\ [](Resolved =>
            /\ (Cardinality(TriggersInText) >= 2 =>
                  \E i \in TriggersInText :
                     /\ \A k \in TriggersInText : i <= k
                     /\ matched_command = <<command_whitelist[i]>>)
            /\ (matched_command # <<>> =>
                  matched_command[1].trigger # s_start_patching_database)
            /\ (Contains(s_start_patching_database, command_text) =>
                  matched_command = <<command_whitelist[1]>>))
    /\ [][ \A i \in 1..Len(command_whitelist) :
              /\ i <= Len(command_whitelist')
              /\ command_whitelist'[i].trigger = command_whitelist[i].trigger
         ]_vars

\* C19: with "acknowledge incident" re-registered and "start patching
\* database" registered, an input that holds "start patching database" and
\* "acknowledge incident" has resolved to "start patching".
C19_Witness ==
    /\ Resolved
    /\ HasKey(command_whitelist, s_start_patching_database)
    /\ Truthy(command_whitelist[3].script)
    /\ Contains(s_start_patching_database, command_text)
    /\ Contains(s_acknowledge_incident, command_text)
    /\ Cardinality(TriggersInText) = 3
    /\ matched_command[1].trigger = s_start_patching

\* C20: process_voice_command takes no confirmation and the engine keeps
\* none, so every call is one for which no confirmation was given: a call
\* that resolved to an entry with requires_confirmation = true has not
\* started the entry's script.
C20_ConfirmationBeforeExecution ==
    (MatchedDone /\ matched_command[1].requires_confirmation) =>
        EffectOps \cap {"spawn", "spawn_fault", "output_fault", "kill",
                        "exit_0", "exit_nonzero"} = {}

\* str.upper(), and the same text in other cases and with other outer whitespace
UpperChar(c) ==
    IF \E i \in 1..Len(LowerChars) : LowerChars[i] = c
    THEN UpperChars[CHOOSE i \in 1..Len(LowerChars) : LowerChars[i] = c]
    ELSE c
Upper(s) == [i \in 1..Len(s) |-> UpperChar(s[i])]
CaseAndSpaceVariants(text) ==
    {Upper(text), Lower(text), Strip(text), <<" ">> \o text, text \o <<"\n">>,
     <<"\t">> \o Upper(Strip(text)) \o <<" ", " ">>}
JustMatched == pc \in {"matched", "unmatched"}

\* C22: matching is insensitive to the case and the outer whitespace of the
\* input.  Every text that differs from the text of the current call only in
\* case or in leading and trailing whitespace normalizes to the text stored in
\* the audit entry of the call and resolves, in the same registry, to the same
\* entry as the call did, or to no entry (the help response) when the call
\* resolved to none.
C22_CaseAndSpaceInsensitive ==
    JustMatched =>
        /\ CurrentEntry.command = command_text
        /\ \A v \in CaseAndSpaceVariants(raw_text) :
            /\ Normalize(v) = CurrentEntry.command
            /\ _match_command(command_whitelist, Normalize(v)).value = matched_command
            /\ ~_match_command(command_whitelist, Normalize(v)).raised

\* C22: an input with upper-case letters and outer whitespace has resolved to
\* an entry, and the audit entry holds another text than the one given.
C22_Witness ==
    /\ pc = "matched"
    /\ HasUpper(raw_text)
    /\ raw_text[Len(raw_text)] \in Whitespace
    /\ CurrentEntry.command # raw_text
    /\ Upper(raw_text) # raw_text

\* the resolution of a text in a registry, stated from the two tables alone:
\* the first entry of the registry whose trigger the text contains, else the
\* entry of the first keyword of the fuzzy table the text contains, else none
ResolutionOf(registry, text) ==
    LET direct == {i \in 1..Len(registry) : Contains(registry[i].trigger, text)}
        fuzzy == {j \in 1..Len(fuzzy_matches) : Contains(fuzzy_matches[j].keyword, text)}
        first(S) == CHOOSE i \in S : \A k \in S : i <= k
    IN  IF direct # {} THEN <<registry[first(direct)]>>
        ELSE IF fuzzy # {}
        THEN <<registry[CHOOSE i \in 1..Len(registry) :
                            registry[i].trigger = fuzzy_matches[first(fuzzy)].trigger]>>
        ELSE <<>>

\* C23: resolution is a function of the normalized input and of the registry's
\* contents and order alone.  Whatever commands the engine has logged before,
\* the call resolves to the first registered trigger the input contains, else
\* to the entry of the first keyword of the fuzzy table the input contains,
\* else to nothing.
C23_ResolutionDeterministic ==
    (pc \in {"matched", "unmatched", "executing"} \/ (pc = "done" /\ ~raised)) =>
        matched_command = ResolutionOf(command_whitelist, Normalize(raw_text))

\* C23: the second call of an engine whose history holds another command, and
\* whose registry holds a custom command, has resolved an input that contains
\* keywords of two different triggers and no trigger.
C23_Witness ==
    /\ pc = "matched"
    /\ Len(command_history) = 2
    /\ heap[command_history[1]].command # command_text
    /\ command_whitelist # DefaultWhitelist
    /\ NoTriggerInText
    /\ \E j, k \in FuzzyHits(command_text) :
          fuzzy_matches[j].trigger # fuzzy_matches[k].trigger

\* the line an acknowledgment writes at the t-th reading of the clock
AckLine(t, cve) ==
    Isoformat(t) \o <<":", " ">> \o <<"I","n","c","i","d","e","n","t"," ","a","c","k","n","o","w","l","e","d","g","e","d"," ","a","t"," ">> \o Isoformat(t)
    \o (IF ~cve.isNone /\ cve.val # <<>> THEN <<" ","f","o","r"," ">> \o cve.val ELSE <<>>)
    \o <<"\n">>

\* C24, as claimed: each acknowledgment appends one line
\* "<timestamp>: Incident acknowledged at <timestamp>" with the same timestamp
\* twice, followed by " for <cve_id>" exactly when a non-empty correlation id
\* was given, and the earlier lines stay unchanged and in order.
C24_EachAppendsOneLine ==
    ResolvedToAcknowledge =>
        /\ Len(ack_log) = Len(ack_log_before) + 1
        /\ SubSeq(ack_log, 1, Len(ack_log_before)) = ack_log_before
        /\ \E t \in 0..clock : ack_log[Len(ack_log)] = AckLine(t, cve_id)

\* C24, amended: an acknowledgment that could create the log directory and
\* write the log appends one line "<timestamp>: Incident acknowledged at
\* <timestamp>" with the same timestamp twice, followed by " for <cve_id>"
\* exactly when a non-empty correlation id was given; one that could not
\* appends nothing.  No step removes, reorders or rewrites a line.
C24_LineFormatAppendOnly ==
    /\ [](ResolvedToAcknowledge =>
            IF "write" \in EffectOps
            THEN /\ Len(ack_log) = Len(ack_log_before) + 1
                 /\ SubSeq(ack_log, 1, Len(ack_log_before)) = ack_log_before
                 /\ \E t \in 0..clock : ack_log[Len(ack_log)] = AckLine(t, cve_id)
            ELSE ack_log = ack_log_before)
    /\ [][/\ Len(ack_log') >= Len(ack_log)
          /\ SubSeq(ack_log', 1, Len(ack_log)) = ack_log]_vars

\* C24: a second acknowledgment has appended its line after the line of the
\* first, one of them with a correlation id and one without.
C24_Witness ==
    /\ ResolvedToAcknowledge
    /\ Len(ack_log) = 2
    /\ "write" \in EffectOps
    /\ Contains(<<" ","f","o","r"," ","C","V","E","-","2","0","2","5","-","5","5","1","8","2">>, ack_log[1]) # Contains(<<" ","f","o","r"," ","C","V","E","-","2","0","2","5","-","5","5","1","8","2">>, ack_log[2])


\* ------------------------------------------ the orchestrator's claims
\* the main thread is inside a call of the command callback
InCallback == conv_pc \in {"in_callback", "in_agent_callback"} \/ sys_pc = "placing"
\* a step of the signal handler: running changes while the main thread stays
\* where it is
HandlerStep == running' # running /\ sys_pc' = sys_pc /\ conv_pc' = conv_pc /\ pc' = pc

\* C21: within a conversation one utterance is in flight at a time and one
\* action runs at a time.  A process_voice_command call in progress is the
\* one the conversation is waiting for; the interface listens, and hands over
\* what it heard, only while no call is in progress; the registry and the
\* command history change only in a step of the conversation's callback, and a
\* step of the signal handler leaves the engine as it is.
C21_OneUtteranceInFlight ==
    /\ [](InCall => InCallback)
    /\ [](conv_pc \in {"prompt", "heard", "speaking"} => AtRest)
    /\ [][<<command_whitelist, heap, command_history>>' # <<command_whitelist, heap, command_history>>
            => /\ conv_pc = "heard" \/ sys_pc = "alerting"
               /\ InCallback'
               /\ Len(command_history') = Len(command_history) + 1]_vars
    /\ [][HandlerStep => UNCHANGED <<command_whitelist, heap, command_history, pc, ncalls,
                                     ack_log, effects>>]_vars

\* C21: the signal handler has run while the second command of a conversation
\* is being executed.
C21_Witness ==
    /\ pc = "executing"
    /\ conv_pc = "in_callback"
    /\ stop_seen
    /\ ~running
    /\ Len(command_history) = 2

\* C26, as claimed: once stop() has been called or a signal has been handled,
\* running stays false, no _process_vulnerability call is started and the main
\* loop is left; when start() has returned running is false.
C26_StopIsFinal ==
    /\ [](stop_seen => ~running)
    /\ [](sys_pc = "returned" => ~running)
    /\ [][(stop_seen /\ sys_pc # "processing") => (sys_pc' # "processing")]_vars
    /\ [][(stop_seen /\ sys_pc # "scanning") => (sys_pc' # "scanning")]_vars

\* C29: every command of the conversation opened for a vulnerability is
\* logged and executed with the id of that vulnerability.  A step that appends
\* an audit entry appends one that holds the id of the batch item being
\* processed; an environment handed to a script holds that id as CVE_ID; and
\* the entries logged before keep their ids.
C29_CorrelationIdOfConversation ==
    /\ [][Len(command_history') > Len(command_history)
            => /\ idx \in 1..Len(new_cves)
               /\ bound_cve_id = new_cves[idx].cve_id
               /\ heap'[command_history'[Len(command_history')]].cve_id
                    = Some(new_cves[idx].cve_id)
               /\ \A k \in 1..Len(command_history) :
                    heap'[command_history'[k]] = heap[command_history[k]]]_vars
    /\ [][child_env' # child_env /\ child_env' # <<>>
            => /\ idx \in 1..Len(new_cves)
               /\ child_env'[1].CVE_ID = Some(new_cves[idx].cve_id)]_vars

\* C29: the conversations of two vulnerabilities of one batch have each logged
\* a command, and the second has started a script.
C29_Witness ==
    /\ Len(command_history) = 2
    /\ heap[command_history[1]].cve_id = Some(<<"C","V","E","-","2","0","2","5","-","5","5","1","8","2">>)
    /\ heap[command_history[2]].cve_id = Some(<<"C","V","E","-","2","0","2","5","-","0","0","0","2">>)
    /\ idx = 2
    /\ sys_pc = "conversing"
    /\ child_env # <<>>
    /\ child_env[1].CVE_ID = Some(<<"C","V","E","-","2","0","2","5","-","0","0","0","2">>)

\* a step in which _process_vulnerability ends early: at an item that cannot
\* be read or summarized, or with a conversation that raised
FaultStep ==
    \/ sys_pc = "processing" /\ sys_pc' \notin {"processing", "alerting"}
    \/ sys_pc = "conversing" /\ conv_pc = "raised" /\ sys_pc' # "conversing"

\* C30: a fault while processing one vulnerability is contained.  The step
\* that ends the processing early goes back to the for loop with the batch,
\* the position in it and running as they were; the for loop, while running,
\* takes the items in order; running becomes false only by a stop; the loop is
\* left only with running false; and after a failing scan, or an exception in
\* the loop body, the loop waits and tests again.
C30_FaultContained ==
    /\ [][FaultStep => /\ sys_pc' = "for_test"
                       /\ UNCHANGED <<new_cves, idx, running>>]_vars
    /\ [][(sys_pc = "for_test" /\ sys_pc' # "for_test" /\ running /\ idx < Len(new_cves))
            => (sys_pc' = "processing" /\ idx' = idx + 1 /\ new_cves' = new_cves)]_vars
    /\ [][(running /\ ~running') => stop_seen']_vars
    /\ [][(sys_pc # "returned" /\ sys_pc' = "returned") => ~running]_vars
    /\ [][(sys_pc = "scanning" /\ sys_pc' # "scanning")
            => (sys_pc' \in {"for_test", "sleeping", "retry_wait"} /\ running' = running)]_vars
    /\ [][(sys_pc \in {"sleeping", "retry_wait"} /\ sys_pc' # sys_pc)
            => (sys_pc' = "while_test")]_vars

\* C30: the first item of a batch could not be read, running is still true
\* and the second item is being processed.
C30_Witness ==
    /\ Len(new_cves) = 2
    /\ ~new_cves[1].well_formed
    /\ idx = 2
    /\ sys_pc = "conversing"
    /\ running
    /\ ~stop_seen


\* ------------------------------------------ the voice interfaces' claims
\* C25, as claimed: when the agent simulation fails, the manual conversation
\* is reached.  A step that leaves simulate_conversation_with_agent without
\* returning and without a conversation to process goes to the spoken alert
\* or to the prompt of the manual loop, and no second start_conversation
\* frame is on the stack.
C25_FallbackReached ==
    /\ [](depth <= 1)
    /\ [][(conv_pc = "simulating" /\ conv_pc' \notin {"agent_turns", "ended"}
           /\ <<conv_pc, depth>>' # <<conv_pc, depth>>)
            => conv_pc' \in {"speaking", "prompt"}]_vars

\* the loops C27 is about
CountingLoop == iface \in {"simple", "enhanced", "voice"}

\* C27, as claimed: in the loops of SimpleVoiceInterface,
\* EnhancedVoiceInterface and VoiceInterface the count of consecutive listens
\* without a response never exceeds 3, the conversation has ended when it is
\* 3, it is 0 again after each processed command, and the callback is never
\* invoked for an empty response.
C27_ThreeAttemptsNoEmptyCallback ==
    /\ [](CountingLoop =>
            /\ attempts \in 0..3
            /\ (attempts = 3 => conv_pc = "ended")
            /\ (conv_pc \in {"heard", "in_callback"}
                  => ~response.isNone /\ response.val # <<>>))
    /\ [][(CountingLoop /\ conv_pc = "in_callback" /\ conv_pc' = "prompt")
            => attempts' = 0]_vars

\* a result with one of the words that end a conversation
HasEndWord ==
    \/ Contains(<<"c","o","m","p","l","e","t","e","d">>, Lower(result))
    \/ Contains(<<"a","c","k","n","o","w","l","e","d","g","e","d">>, Lower(result))
    \/ iface \in {"simple", "enhanced"} /\ Contains(<<"s","u","c","c","e","s","s","f","u","l">>, Lower(result))

\* C28: in the loops of the four interfaces a conversation ends on the first
\* command whose result signals completion.  The step after a callback that
\* returned a result with an end word ends the conversation, and the callback
\* is entered again only in a conversation started anew; after a result
\* without these words the engineer is prompted again.  The help response and
\* the messages for a failure, a timeout and a configuration error hold none
\* of the words, the messages for a success and an acknowledgment hold one.
C28_EndsOnCompletion ==
    /\ [][(conv_pc = "in_callback" /\ conv_pc' # "in_callback" /\ ~raised)
            => IF HasEndWord THEN conv_pc' = "ended" /\ depth' = 0
               ELSE conv_pc' = "prompt" /\ depth' = depth]_vars
    /\ [][(conv_pc = "ended" /\ conv_pc' # "ended")
            => (depth' = 1 /\ conv_pc' \in {"prompt", "speaking", "simulating"})]_vars
    /\ []((conv_pc = "in_callback" /\ pc = "done") =>
            /\ ~raised
            /\ outcome \in {"help", "failed", "timed_out", "config_error", "raised"}
                 => ~HasEndWord
            /\ outcome \in {"succeeded", "acknowledged"} => HasEndWord)

\* C28: the second command of a conversation, after a first that failed, has
\* returned a result with an end word and the conversation has ended.
C28_Witness ==
    /\ conv_pc = "ended"
    /\ iface = "voice"
    /\ pc = "done"
    /\ outcome = "succeeded"
    /\ HasEndWord
    /\ Len(command_history) = 2
    /\ response = Some(<<"s","t","a","r","t"," ","p","a","t","c","h","i","n","g">>)
    /\ attempts = 0


\* ------------------------------------------ the registry's frame
\* the position in the fuzzy table of the first keyword held by the text of
\* the current call
FirstKeyword == Min(FuzzyHits(command_text))

\* C31: the default triggers stay keys of the registry and the registry never
\* shrinks.  Every target of the fuzzy table is a key in every state, no step
\* removes a key, the matching step of a call never raises, and when it
\* matched by a keyword (no trigger being held by the text) the call resolved
\* to the entry registered at that moment under the keyword's target.
C31_DefaultsStayRegistered ==
    /\ [](/\ \A i \in 1..Len(DefaultWhitelist) :
               HasKey(command_whitelist, DefaultWhitelist[i].trigger)
          /\ \A j \in 1..Len(fuzzy_matches) :
               HasKey(command_whitelist, fuzzy_matches[j].trigger))
    /\ [][(command_whitelist' # command_whitelist)
            => /\ Len(command_whitelist') >= Len(command_whitelist)
               /\ \A i \in 1..Len(command_whitelist) :
                    HasKey(command_whitelist', command_whitelist[i].trigger)]_vars
    /\ [][(pc = "received" /\ pc' # "received")
            => /\ ~raised'
               /\ pc' \in {"matched", "unmatched"}
               /\ (DirectHits(command_whitelist, command_text) = {}
                   /\ FuzzyHits(command_text) # {})
                    => matched_command'
                         = <<Item(command_whitelist, fuzzy_matches[FirstKeyword].trigger)>>]_vars

\* C31: add_custom_command has replaced the entry of "acknowledge incident",
\* and a command matched by the keyword "ack" has resolved to the new entry.
C31_Witness ==
    /\ pc = "matched"
    /\ command_text = <<"a","c","k">>
    /\ DirectHits(command_whitelist, command_text) = {}
    /\ matched_command = <<Item(command_whitelist, s_acknowledge_incident)>>
    /\ matched_command[1].script = Some(s_scripts_ack)
    /\ Len(command_whitelist) > Len(DefaultWhitelist)

\* a step of a process_voice_command call
CallStep == pc' # pc /\ pc' \in {"received", "matched", "unmatched", "executing", "done"}
\* the entries of the add_custom_command calls made
EntriesOfCalls == {CustomEntry(c) : c \in CustomCommands}
\* a step of get_command_history
HistoryReadStep == returned' # returned /\ returned'.held /\ returned'.list = command_history

\* C32: process_voice_command never changes the registry, add_custom_command
\* never changes the command history and changes only the entry of its
\* trigger, get_command_history changes neither.  A step of a call leaves the
\* registry as it is; a step that changes the registry is made at rest, leaves
\* the history and its entries as they are and, for the arguments of one
\* add_custom_command call, stores the entry of that call under its
\* lower-cased trigger and leaves every entry under another key as it is; a
\* step of get_command_history leaves the registry, the history and the
\* entries as they are.
C32_Frames ==
    /\ [][CallStep => command_whitelist' = command_whitelist]_vars
    /\ [][(command_whitelist' # command_whitelist)
            => /\ AtRest
               /\ UNCHANGED <<heap, command_history>>
               /\ \E k \in 1..Len(command_whitelist') :
                    /\ command_whitelist'[k] \in EntriesOfCalls
                    /\ \A i \in 1..Len(command_whitelist) :
                         command_whitelist[i].trigger # command_whitelist'[k].trigger
                           => /\ HasKey(command_whitelist', command_whitelist[i].trigger)
                              /\ Item(command_whitelist', command_whitelist[i].trigger)
                                   = command_whitelist[i]
                    /\ \A i \in 1..Len(command_whitelist') :
                         i # k => HasKey(command_whitelist, command_whitelist'[i].trigger)]_vars
    /\ [][HistoryReadStep => UNCHANGED <<command_whitelist, heap, command_history>>]_vars

\* C32: with a custom command registered and a command in the history, a
\* default entry has been replaced, a call has ended and the history was read.
C32_Witness ==
    /\ pc = "done"
    /\ Len(command_history) = 2
    /\ returned.held
    /\ returned.list = command_history
    /\ HasKey(command_whitelist, s_deploy_fix)
    /\ Item(command_whitelist, s_acknowledge_incident).script = Some(s_scripts_ack)


\* ------------------------------------------ the emergency shutdown
\* the call has ended and had resolved to "emergency shutdown"
ResolvedToShutdown ==
    /\ pc = "done"
    /\ matched_command # <<>>
    /\ matched_command[1].trigger = s_emergency_shutdown

\* C33, as claimed: the emergency shutdown script is run only when the
\* enable_emergency_shutdown setting is true.  Whatever the environment holds
\* for the setting, when the setting is false a call that resolved to
\* "emergency shutdown" has started no child process.
C33_ShutdownOnlyWhenEnabled ==
    \A setting \in ShutdownSettings :
        (~enable_emergency_shutdown(setting) /\ ResolvedToShutdown)
            => "spawn" \notin EffectOps


\* ------------------------------------------ the phone caller's claims
\* a step in which handle_voice_response is called, and one in which end_call is
HandleStep ==
    /\ sys_pc = "webhook"
    /\ conv_pc # "in_handler"
    /\ call_result'.method = "handle_voice_response"
    /\ <<call_id, call_result, conv_pc, ncalls>>' # <<call_id, call_result, conv_pc, ncalls>>
EndCallStep ==
    /\ sys_pc = "webhook"
    /\ call_result'.method = "end_call"
    /\ <<call_id, call_result, active_calls>>' # <<call_id, call_result, active_calls>>

\* C34, as claimed: handle_voice_response dispatches a command only for a
\* call that is registered and not ended.  A handle_voice_response call for
\* an id that is no key of active_calls returns the apology and leaves the
\* engine as it is; one that invokes the command callback is for a call whose
\* record is there and is not ended; an end_call for an unknown id returns
\* False and leaves active_calls as it is.
C34_DispatchOnlyForLiveCalls ==
    /\ [][(HandleStep /\ call_id' \notin DOMAIN active_calls)
            => /\ call_result'.value = s_sorry_unknown_call
               /\ UNCHANGED <<command_whitelist, heap, command_history, pc, ncalls>>]_vars
    /\ [][(HandleStep /\ ncalls' # ncalls)
            => /\ call_id' \in DOMAIN active_calls
               /\ active_calls[call_id'].status = "active"
               /\ ~active_calls[call_id'].ended]_vars
    /\ [][(EndCallStep /\ call_id' \notin DOMAIN active_calls)
            => /\ call_result'.value = s_False
               /\ active_calls' = active_calls]_vars


\* ------------------------------------------ the agent's conversation
\* a step of _process_agent_conversation that looks at the next turn
TurnStep == conv_pc = "agent_turns" /\ conversation_turns # <<>> /\ conv_pc' # "simulating"

\* C35: _process_agent_conversation invokes the callback at most once per
\* turn, in turn order, and only for turns of the user that hold a command
\* keyword; a fault of the callback is contained.  The turns are taken from
\* the head, one per step; the callback is about to be invoked exactly when
\* the turn taken is a user's with a keyword, with the lower-cased content of
\* that turn; every callback of the replay is entered from a turn just taken
\* and ends, by returning or by raising, back at the turns with the later
\* turns as they were; and the replay ends only when no turn is left.
C35_AgentTurnsInOrder ==
    /\ [][TurnStep
            => /\ conversation_turns' = Tail(conversation_turns)
               /\ ncalls' = ncalls
               /\ IF IsCommandTurn(Head(conversation_turns))
                  THEN /\ conv_pc' = "agent_heard"
                       /\ response' = Some(Lower(Head(conversation_turns).content))
                  ELSE conv_pc' = "agent_turns"]_vars
    /\ [][(conv_pc' = "agent_heard" /\ conv_pc # "agent_heard") => TurnStep]_vars
    /\ [][(conv_pc = "agent_heard" /\ conv_pc' # "agent_heard")
            => /\ conv_pc' \in {"in_agent_callback", "agent_turns"}
               /\ conversation_turns' = conversation_turns
               /\ depth' = depth
               /\ conv_pc' = "in_agent_callback"
                    => /\ ncalls' = ncalls + 1
                       /\ raw_text' = response.val]_vars
    /\ [][(conv_pc = "in_agent_callback")
            => /\ conv_pc' \in {"in_agent_callback", "agent_turns"}
               /\ ncalls' = ncalls
               /\ conversation_turns' = conversation_turns
               /\ depth' = depth]_vars
    /\ [][(conv_pc = "agent_turns" /\ conv_pc' = "ended") => conversation_turns = <<>>]_vars

\* C35: the callback raised for the first command turn of a conversation of
\* two, and the second turn's command has been processed.
C35_Witness ==
    /\ iface = "voice_with_agent"
    /\ conv_pc = "in_agent_callback"
    /\ pc = "done"
    /\ conversation_turns = <<>>
    /\ response = Some(s_quarantine_all_servers)
    /\ Len(command_history) = 1
    /\ heap[command_history[1]].command = s_quarantine_all_servers


\* ------------------------------------------ the configuration's claims
sensitive_keys == {"openai_api_key", "elevenlabs_api_key"}
\* two configurations that differ at most in the values of API keys that are
\* set in both
DifferOnlyInSetKeys(c1, c2) ==
    /\ \A k \in DOMAIN c1 \ sensitive_keys : c1[k] = c2[k]
    /\ \A k \in sensitive_keys :
          \/ c1[k] = c2[k]
          \/ Truthy(c1[k]) /\ Truthy(c2[k])

\* C36: get_all never exposes a secret.  What get_all has just returned holds,
\* for each API key, an empty value or the mask, and the stored value for
\* every other key; every configuration that differs from the stored one only
\* in the values of set API keys gives the same result; no step changes the
\* stored configuration, also when the caller writes to what it got; and get
\* returns the stored value, the real key, also after get_all.
C36_GetAllMasksSecrets ==
    /\ [](config_result.method = "get_all" =>
            /\ \A k \in sensitive_keys :
                 \/ ~Truthy(config_result.value[k])
                 \/ config_result.value[k] = Some(s_masked)
            /\ \A k \in sensitive_keys :
                 ~Truthy(_config[k]) => config_result.value[k] = _config[k]
            /\ \A k \in DOMAIN _config \ sensitive_keys :
                 config_result.value[k] = _config[k]
            /\ DOMAIN config_result.value = DOMAIN _config
            /\ \A c2 \in Configs :
                 DifferOnlyInSetKeys(_config, c2) => get_all(c2) = config_result.value)
    /\ [][_config' = _config]_vars
    /\ []((config_result.method = "get" /\ config_result.key \in DOMAIN _config)
            => config_result.value = _config[config_result.key])

\* C36: after get_all on a configuration with one API key set and the other
\* unset, get has returned the real key.
C36_Witness ==
    /\ config_result.method = "get"
    /\ config_result.masked
    /\ config_result.key = "openai_api_key"
    /\ config_result.value = Some(s_key_a)
    /\ _config.elevenlabs_api_key = None
    /\ get_all(_config).openai_api_key = Some(s_masked)
====
